---------------------------- MODULE Spec2Model ----------------------------
(***************************************************************************)
(* State-machine model of the conversation event log of the logging        *)
(* plugin: hooks/log_event.py (ingestion), lib/storage.py (JSONL log,      *)
(* SQLite index, sync) and tools/repair_sessions.py (repair), for one      *)
(* session.                                                                *)
(*                                                                         *)
(* The log file is a sequence of units.  A unit is a block of bytes of    *)
(* one serialized event: unit k of event e is [e |-> e, k |-> k], and the  *)
(* last unit of a line carries the closing brace and the newline.  Byte    *)
(* offsets (st_size, seek, the sync cursor) are counted in units.          *)
(***************************************************************************)
EXTENDS Integers, Sequences, FiniteSets, TLC

\* ------------------------------------------------------------------ bounds
MaxCalls == 3      \* process_event invocations in one behaviour
MaxSyncs == 3      \* sync_session calls in one behaviour
MaxRepairs == 3    \* repair_session runs in one behaviour
MaxTorn == 1       \* write syscalls a reader may observe half done
MaxUpdates == 3    \* update_session_with_images calls made on their own

\* --------------------------------------------------------------- processes
Repairer == "repair"
Ingest == {"p1", "p2"}
Syncers == {"s1", "s2"}
Writers == Ingest \cup {Repairer}
NoOne == "none"

\* ------------------------------------------------------------------ events
SessionId == "sess"
NoText == ""
ShortResp == "hi"
LongResp == "long"
Prompt == "hello"

\* Texts whose JSON line is as large as the text layer's chunk.
LongTexts == {LongResp}

\* Units of a line without / with an images field, and the chunk size of
\* the buffered text file returned by open() (lines of BaseLen fit twice).
BaseLen == 2
ImagesLen == 1
\* io.TextIOWrapper flushes its pending text once it exceeds its chunk.
ChunkSize == 2 * BaseLen + ImagesLen

Len1(e) ==
    (IF e.content \in LongTexts THEN ChunkSize ELSE BaseLen)
    + (IF e.images # 0 THEN ImagesLen ELSE 0)

\* json.dumps(event) + "\n", in units.
Ser(e) == [k \in 1..Len1(e) |-> [e |-> e, k |-> k]]

RECURSIVE SerAll(_)
SerAll(es) == IF es = <<>> THEN <<>> ELSE Ser(Head(es)) \o SerAll(Tail(es))

\* The unit that ends a line.
IsNewline(u) == u.k = Len1(u.e)

\* The unit of a line that holds the "data" object, where a
\* '"source": "compact"' text lies.
DataUnit == BaseLen

\* First index of f at or after i that ends a line, or Len(f) if none.
RECURSIVE LineEnd(_, _)
LineEnd(f, i) ==
    IF i >= Len(f) THEN Len(f)
    ELSE IF IsNewline(f[i]) THEN i ELSE LineEnd(f, i + 1)

\* "for line in f": the lines of f, the last one possibly unterminated.
RECURSIVE Lines(_)
Lines(f) ==
    IF f = <<>> THEN <<>>
    ELSE LET n == LineEnd(f, 1)
         IN  <<SubSeq(f, 1, n)>> \o Lines(SubSeq(f, n + 1, Len(f)))

\* json.loads(line) succeeds exactly on one whole serialized event.
ValidLine(line) == line = Ser(line[1].e)
Decode(line) == line[1].e

\* Reading events line by line: the events decoded before the first line
\* json.loads rejects, and whether every line was accepted.
RECURSIVE LoadLines(_)
LoadLines(ls) ==
    IF ls = <<>> THEN [evs |-> <<>>, ok |-> TRUE]
    ELSE IF ~ValidLine(Head(ls)) THEN [evs |-> <<>>, ok |-> FALSE]
    ELSE LET r == LoadLines(Tail(ls))
         IN  [evs |-> <<Decode(Head(ls))>> \o r.evs, ok |-> r.ok]

read_session(f) == LoadLines(Lines(f))


\* A NUL unit: what a write past the end of file leaves in the gap.
NoEvent ==
    [id |-> 0, type |-> "none", ts |-> 0, sid |-> SessionId, asn |-> 0,
     src |-> "none", nest |-> 0, tp |-> 0, content |-> NoText, images |-> 0]
Hole == [e |-> NoEvent, k |-> 0]

\* write(2) of d at offset at (0-based): overwrites, extends, pads a gap.
Put(f, at, d) ==
    LET pre == IF at <= Len(f) THEN SubSeq(f, 1, at)
               ELSE f \o [i \in 1..(at - Len(f)) |-> Hole]
        post == SubSeq(f, at + Len(d) + 1, Len(f))
    IN  pre \o d \o post

\* ------------------------------------------------------------------- state
VARIABLES
    file,        \* the session's .jsonl file, in units
    lock,        \* holder of the flock on the file, or NoOne
    sys,         \* a write(2) in progress: [who, data, at]
    torn,        \* write syscalls observed half done so far
    wr,          \* per writer: pc and the locals of its open file object
    rs,          \* repair_session's locals
    sy,          \* per sync_session caller: pc and locals
    events,      \* SQLite table events (one row per id)
    fts,         \* SQLite virtual table events_fts, in rowid order
    cursor,      \* sync_state.last_position of the session
    rollup,      \* the session's row of table sessions
    transcript,  \* the host's transcript file: [exists, resp, imgs]
    rd,          \* what the last read_session call returned
    clock,       \* datetime.now()
    nextId,      \* uuid4 draws so far
    hist,        \* history: the batches handed to append_events, in order
    done,        \* history: events whose append_events call has returned
    syncs,       \* history: sync_session calls made
    repairs,     \* history: repair_session calls made
    lastSync,    \* history: writer calls begun when the last sync_session
                 \* call ended with no writer at work, else -1
    call         \* a call of the search library, of main or of the image
                 \* extraction: its inputs, its position and its results

vars == <<file, lock, sys, torn, wr, rs, sy, events, fts, cursor, rollup,
          transcript, rd, clock, nextId, hist, done, syncs, repairs,
          lastSync, call>>

\* The variables of the session log, its writers and its index.
logVars == <<file, lock, sys, torn, wr, rs, sy, events, fts, cursor, rollup,
             transcript, rd, clock, nextId, hist, done, syncs, repairs,
             lastSync>>

idxVars == <<events, fts, cursor, rollup>>
histVars == <<hist, done, lastSync>>

NoSys == [who |-> NoOne, data |-> <<>>, at |-> 0]
IdleWriter ==
    [pc |-> "idle", phase |-> "none", batch |-> <<>>, todo |-> <<>>,
     pend |-> <<>>, mode |-> "a", off |-> 0, tp |-> 0]
NoRollup == [event_count |-> 0, started_at |-> 0, ended_at |-> 0]
NoSnap == [events |-> {}, fts |-> <<>>, cursor |-> 0, rollup |-> NoRollup]
\* h0, prev, snap and d0 are history: the writer calls begun when the call
\* started with no writer at work (else -1), lastSync at that time, the
\* index at that time and the number of events whose append had returned.
IdleSync == [pc |-> "idle", last_pos |-> 0, current_pos |-> 0, n |-> 0,
             ret |-> "none", h0 |-> 0 - 1, prev |-> 0 - 1, snap |-> NoSnap,
             d0 |-> 0]
NoCall == [op |-> "none"]
NoRead == [evs |-> <<>>, ok |-> TRUE, called |-> FALSE]

\* ------------------------------------------------------- ingestion inputs
Markers == {"compact", "clear"}

\* The hook envelopes process_event is given: the event type and, of its
\* data, the top-level source, a nested '"source": "clear"' (nest = 1),
\* the prompt and the transcript_path (tp = 0: none).
Envelope(type, src, nest, prompt, tp) ==
    [type |-> type, src |-> src, nest |-> nest, prompt |-> prompt, tp |-> tp]

Envelopes ==
    {Envelope("SessionStart", s, 0, NoText, 0) : s \in {"startup"} \cup Markers}
    \cup {Envelope("UserPromptSubmit", "none", 0, q, 0) : q \in {NoText, Prompt}}
    \cup {Envelope("PreToolUse", "none", 1, NoText, 0)}
    \cup {Envelope("Stop", "none", 0, NoText, t) : t \in {0, 1}}

\* extract_content
extract_content(in) ==
    CASE in.type = "UserPromptSubmit" -> in.prompt
      [] in.type = "SessionStart" -> "started"
      [] in.type = "PreToolUse" -> "tool"
      [] in.type = "Stop" -> "finished"
      [] OTHER -> NoText

\* get_response: the transcript's last assistant text, "" if there is none
\* or the file is missing.
get_response(t) == IF t.exists THEN t.resp ELSE NoText

\* content.count('"source": "compact"') + content.count('"source": "clear"')
\* over the file's text, plus one for a marker of the event being built.
MarkerCount(f) ==
    Cardinality({i \in DOMAIN f : f[i].k = DataUnit /\ f[i].e.src \in Markers})
    + Cardinality({i \in DOMAIN f : f[i].k = DataUnit /\ f[i].e.nest = 1})

get_agent_session_num(f, source) ==
    MarkerCount(f) + (IF source \in Markers THEN 1 ELSE 0)

\* The event dict process_event builds, and the derived AssistantResponse.
BuildEvent(in, id, ts, num) ==
    [id |-> id, type |-> in.type, ts |-> ts, sid |-> SessionId, asn |-> num,
     src |-> in.src, nest |-> in.nest, tp |-> in.tp,
     content |-> extract_content(in), images |-> 0]

AssistantEvent(id, ts, num, response) ==
    [id |-> id, type |-> "AssistantResponse", ts |-> ts, sid |-> SessionId,
     asn |-> num, src |-> "none", nest |-> 0, tp |-> 0,
     content |-> response, images |-> 0]

\* EventsToWrite without the capture of the response: a faulty variant.
EventsToWrite_NoResponse(in, f, t, id, ts) ==
    <<BuildEvent(in, id, ts, get_agent_session_num(f, in.src))>>

\* events_to_write of process_event.
EventsToWrite(in, f, t, id, ts) ==
    LET num == get_agent_session_num(f, in.src)
        event == BuildEvent(in, id, ts, num)
        response == get_response(t)
    IN  IF in.type = "Stop" /\ in.tp # 0 /\ response # NoText
        THEN <<event, AssistantEvent(id + 1, ts, num, response)>>
        ELSE <<event>>


\* ------------------------------------------------------- buffered writing
\* What the next step of writer p hands to write(2): f.write(line) first
\* flushes pending text that the line would push over the chunk, then adds
\* the line and flushes once the pending text has reached the chunk;
\* close() flushes what is left.
NextEmit(p) ==
    LET w == wr[p]
    IN  IF w.pc = "write" /\ w.todo # <<>>
        THEN LET line == Ser(Head(w.todo))
             IN  IF w.pend # <<>> /\ Len(w.pend) + Len(line) > ChunkSize
                 THEN w.pend
                 ELSE IF Len(w.pend) + Len(line) >= ChunkSize
                      THEN w.pend \o line
                      ELSE <<>>
        ELSE IF w.pc = "close" THEN w.pend
        ELSE <<>>

\* Offset of p's next write(2): end of file under O_APPEND, else the
\* descriptor's own offset.
WriteAt(p, f) == IF wr[p].mode = "a" THEN Len(f) ELSE wr[p].off

\* The file after p's write(2) of d, which a Torn step may have begun.
Written(p, d) ==
    IF d = <<>> THEN file
    ELSE IF sys.who = p
         THEN Put(file, IF wr[p].mode = "a" THEN Len(file) ELSE sys.at, sys.data)
         ELSE Put(file, WriteAt(p, file), d)

\* No write(2) of another process is in progress (the inode is locked
\* for the length of one write).
CanWrite(p) == sys.who \in {NoOne, p}

\* A reader-visible midpoint of p's next write(2): k units are in the file.
Torn(p) ==
    /\ sys.who = NoOne
    /\ torn < MaxTorn
    /\ \E k \in 1..(Len(NextEmit(p)) - 1) :
         LET d == NextEmit(p)
             at == WriteAt(p, file)
         IN  /\ file' = Put(file, at, SubSeq(d, 1, k))
             /\ sys' = [who |-> p, data |-> SubSeq(d, k + 1, Len(d)), at |-> at + k]
    /\ torn' = torn + 1
    /\ UNCHANGED <<call, lock, wr, rs, sy, idxVars, transcript, rd, clock, nextId,
                   histVars, syncs, repairs>>

\* ---------------------------------------------------------- process_event
\* process_event up to the call of append_events: the scan of the log for
\* agent_session_num, the event, the transcript's response.
Begin(p, in) ==
    /\ wr[p].pc = "idle"
    /\ Len(hist) < MaxCalls
    /\ LET batch == EventsToWrite(in, file, transcript, nextId + 1, clock + 1)
       IN  /\ wr' = [wr EXCEPT ![p] =
                       [pc |-> "lock", phase |-> "append", batch |-> batch,
                        todo |-> batch, pend |-> <<>>, mode |-> "a", off |-> 0,
                        tp |-> IF in.type = "Stop" THEN in.tp ELSE 0]]
           /\ nextId' = nextId + Len(batch)
           /\ hist' = Append(hist, batch)
    /\ clock' = clock + 1
    /\ UNCHANGED <<call, file, lock, sys, torn, rs, sy, idxVars, transcript, rd,
                   done, lastSync, syncs, repairs>>

\* fcntl.flock(f.fileno(), LOCK_EX): blocks while another holds the lock.
Lock(p) ==
    /\ wr[p].pc = "lock"
    /\ lock = NoOne
    /\ lock' = p
    /\ wr' = [wr EXCEPT ![p].pc = "write"]
    /\ UNCHANGED <<call, file, sys, torn, rs, sy, idxVars, transcript, rd, clock,
                   nextId, histVars, syncs, repairs>>

\* One f.write(json.dumps(event) + "\n") of the loop.
WriteStep(p) ==
    /\ wr[p].pc = "write"
    /\ wr[p].todo # <<>>
    /\ CanWrite(p)
    /\ LET w == wr[p]
           d == NextEmit(p)
           line == Ser(Head(w.todo))
           preflush == d = w.pend /\ d # <<>>
           todo2 == IF preflush THEN w.todo ELSE Tail(w.todo)
           pend2 == IF d # <<>> THEN <<>> ELSE w.pend \o line
           pc2 == IF todo2 # <<>> THEN "write"
                  ELSE IF p = Repairer THEN "close" ELSE "unlock"
       IN  /\ file' = Written(p, d)
           /\ wr' = [wr EXCEPT ![p].todo = todo2, ![p].pend = pend2,
                               ![p].pc = pc2,
                               ![p].off = IF w.mode = "a" THEN 0 ELSE w.off + Len(d)]
    /\ sys' = NoSys
    /\ UNCHANGED <<call, lock, torn, rs, sy, idxVars, transcript, rd, clock, nextId,
                   histVars, syncs, repairs>>

\* f.write raising and the with block left with no finally clause run: a
\* faulty variant.
WriteFails_NoFinally(p) ==
    /\ wr[p].pc = "write"
    /\ wr[p].todo # <<>>
    /\ p # Repairer
    /\ wr' = [wr EXCEPT ![p].pc = "close", ![p].todo = <<>>, ![p].tp = 0]
    /\ UNCHANGED <<call, file, lock, sys, torn, rs, sy, idxVars, transcript, rd,
                   clock, nextId, histVars, syncs, repairs>>

\* f.write raising (OSError: disk full, I/O error) inside the try block of
\* append_events or update_session_with_images: the loop is left, the
\* finally clause runs next, and the exception ends the call, so nothing
\* of process_event follows the close.
WriteFails(p) ==
    /\ wr[p].pc = "write"
    /\ wr[p].todo # <<>>
    /\ p # Repairer
    /\ wr' = [wr EXCEPT ![p].pc = "unlock", ![p].todo = <<>>, ![p].tp = 0]
    /\ UNCHANGED <<call, file, lock, sys, torn, rs, sy, idxVars, transcript, rd,
                   clock, nextId, histVars, syncs, repairs>>

\* fcntl.flock(f.fileno(), LOCK_UN) in the finally clause.
Unlock(p) ==
    /\ wr[p].pc = "unlock"
    /\ lock' = NoOne
    /\ wr' = [wr EXCEPT ![p].pc = "close"]
    /\ UNCHANGED <<call, file, sys, torn, rs, sy, idxVars, transcript, rd, clock,
                   nextId, histVars, syncs, repairs>>

\* Leaving the with block: close() flushes the pending text.  After the
\* append of a Stop event with a transcript_path the image correlation
\* follows.
Close(p) ==
    /\ wr[p].pc = "close"
    /\ CanWrite(p)
    /\ file' = Written(p, wr[p].pend)
    /\ sys' = NoSys
    /\ wr' = [wr EXCEPT ![p] =
                IF wr[p].phase = "append" /\ wr[p].tp # 0
                THEN [wr[p] EXCEPT !.pc = "imgread", !.pend = <<>>]
                ELSE IdleWriter]
    /\ done' = IF wr[p].phase = "append" THEN done \o wr[p].batch ELSE done
    /\ UNCHANGED <<call, lock, torn, rs, sy, idxVars, transcript, rd, clock, nextId,
                   hist, lastSync, syncs, repairs>>


\* ----------------------------------------------- update_session_with_images
\* Number of UserPromptSubmit events before position i of evs.
PromptOrdinal(evs, i) ==
    Cardinality({j \in 1..(i - 1) : evs[j].type = "UserPromptSubmit"})

\* extract_images_from_transcript: the ordinals of the transcript's user
\* messages that hold images; the reference list of ordinal n is n + 1.
extract_images_from_transcript(t) == IF t.exists THEN t.imgs ELSE {}

\* The matching loop setting the field whether or not the event has one: a
\* faulty variant.
Correlate_Overwrite(evs, image_refs_by_msg) ==
    [i \in 1..Len(evs) |->
        IF /\ evs[i].type = "UserPromptSubmit"
           /\ PromptOrdinal(evs, i) \in DOMAIN image_refs_by_msg
        THEN [evs[i] EXCEPT !.images = image_refs_by_msg[PromptOrdinal(evs, i)]]
        ELSE evs[i]]

\* The matching loop of update_session_with_images: the events with the
\* images field set on the n-th UserPromptSubmit to the mapping's list for
\* n, for every n of the mapping, where the event has no such field.
Correlate(evs, image_refs_by_msg) ==
    [i \in 1..Len(evs) |->
        IF /\ evs[i].type = "UserPromptSubmit"
           /\ evs[i].images = 0
           /\ PromptOrdinal(evs, i) \in DOMAIN image_refs_by_msg
        THEN [evs[i] EXCEPT !.images = image_refs_by_msg[PromptOrdinal(evs, i)]]
        ELSE evs[i]]

\* The mapping of a transcript whose user messages refs hold images: the
\* reference list of ordinal n is written n + 1.
WithImages(evs, refs) == Correlate(evs, [n \in refs |-> n + 1])

\* The mappings update_session_with_images is given: reference lists (1 or
\* 2) for some of the first MaxOrdinal + 1 user messages.
MaxOrdinal == 1
ImageMappings ==
    UNION {[S -> {1, 2}] : S \in SUBSET (0..MaxOrdinal)}

\* update_session_with_images called on its own, no writer at work: the
\* guard, the read, the matching loop and the rewrite when an event was
\* updated.  call keeps the events read, the events after the loop and
\* whether the call before this one had the same mapping on the same log.
UpdateSessionWithImages(m) ==
    /\ \A p \in Writers : wr[p].pc = "idle"
    /\ sys.who = NoOne
    /\ IF call.op = "update_session_with_images" THEN call.n < MaxUpdates
       ELSE call.op = "none"
    /\ LET r == read_session(file)
           new == Correlate(r.evs, m)
           updated == DOMAIN m # {} /\ r.ok /\ new # r.evs
       IN  /\ file' = IF updated THEN SerAll(new) ELSE file
           /\ call' = [op |-> "update_session_with_images",
                       n |-> IF call.op = "none" THEN 1 ELSE call.n + 1,
                       mapping |-> m,
                       before |-> r.evs,
                       after |-> IF updated THEN new ELSE r.evs,
                       updated |-> updated,
                       h |-> Len(hist),
                       again |-> /\ call.op = "update_session_with_images"
                                 /\ call.mapping = m
                                 /\ call.h = Len(hist)]
    /\ UNCHANGED <<lock, sys, torn, wr, rs, sy, idxVars, transcript, rd, clock,
                   nextId, histVars, syncs, repairs>>

\* process_event after append_events of a Stop event: the transcript's
\* images, and update_session_with_images up to its rewrite of the file.
\* A line json.loads rejects ends it (the exception is logged).
ImgRead(p) ==
    /\ wr[p].pc = "imgread"
    /\ LET refs == extract_images_from_transcript(transcript)
           r == read_session(file)
           new == WithImages(r.evs, refs)
       IN  wr' = [wr EXCEPT ![p] =
                    IF refs = {} \/ ~r.ok \/ new = r.evs
                    THEN IdleWriter
                    ELSE [wr[p] EXCEPT !.pc = "imgopen", !.phase = "images",
                                       !.todo = new, !.mode = "w", !.off = 0]]
    /\ UNCHANGED <<call, file, lock, sys, torn, rs, sy, idxVars, transcript, rd,
                   clock, nextId, histVars, syncs, repairs>>

\* open(session_path, "w"): truncates the file, before the lock is taken.
ImgOpen(p) ==
    /\ wr[p].pc = "imgopen"
    /\ sys.who = NoOne
    /\ file' = <<>>
    /\ wr' = [wr EXCEPT ![p].pc = "lock"]
    /\ UNCHANGED <<call, lock, sys, torn, rs, sy, idxVars, transcript, rd, clock,
                   nextId, histVars, syncs, repairs>>

\* ----------------------------------------------------------- repair_session
\* analyze_session: the 0-based indices of the Stop events that have a
\* transcript_path and no AssistantResponse on the next line, ascending.
IsGap(evs, i) ==
    /\ evs[i].type = "Stop"
    /\ evs[i].tp # 0
    /\ ~(i + 1 <= Len(evs) /\ evs[i + 1].type = "AssistantResponse")

\* The transcript files by the transcript_path of a Stop event.
TranscriptPaths == {1, 2}

\* analyze_session over the events of a log, ts giving the transcript file
\* at each path.
RECURSIVE GapsIn(_, _, _)
GapsIn(evs, i, ts) ==
    IF i > Len(evs) THEN <<>>
    ELSE (IF IsGap(evs, i)
          THEN <<[index |-> i - 1, stop_event |-> evs[i],
                  transcript_exists |-> ts[evs[i].tp].exists]>>
          ELSE <<>>) \o GapsIn(evs, i + 1, ts)

\* The one transcript of the session at every path.
OneTranscript == [p \in TranscriptPaths |-> transcript]

GapsFrom(evs, i) == GapsIn(evs, i, OneTranscript)

analyze_session(evs) == GapsFrom(evs, 1)

\* list.insert(i, x)
ListInsert(l, i, x) ==
    LET j == IF i > Len(l) THEN Len(l) ELSE i
    IN  SubSeq(l, 1, j) \o <<x>> \o SubSeq(l, j + 1, Len(l))

\* f"evt_repair_{idx:04d}": ids apart from the uuid ids, one per index.
RepairId(idx) == 0 - (idx + 1)

\* reversed(missing) read front to back: a faulty variant.
Reverse_Forward(l) == l

Reverse(l) == [i \in 1..Len(l) |-> l[Len(l) + 1 - i]]

\* "failed += 1" and leaving the loop: a faulty variant.
Failed_Break(ms, acc, ts) == [acc EXCEPT !.failed = @ + 1]

RECURSIVE RepairGaps(_, _, _)

\* "failed += 1; continue": the loop goes on with the gaps that remain.
Failed(ms, acc, ts) == RepairGaps(Tail(ms), [acc EXCEPT !.failed = @ + 1], ts)

\* The loop over reversed(missing): acc holds events, last_response and
\* the counters, ts the transcript file at each path.
RepairGaps(ms, acc, ts) ==
    IF ms = <<>> THEN acc
    ELSE LET m == Head(ms)
             response == get_response(ts[m.stop_event.tp])
         IN  IF ~m.transcript_exists \/ response = NoText
             THEN Failed(ms, acc, ts)
             ELSE IF response = acc.last_response
             THEN RepairGaps(Tail(ms), [acc EXCEPT !.skipped = @ + 1], ts)
             ELSE RepairGaps(Tail(ms),
                    [acc EXCEPT
                       !.last_response = response,
                       !.repaired = @ + 1,
                       !.events = ListInsert(@, m.index + 1,
                           [id |-> RepairId(m.index),
                            type |-> "AssistantResponse",
                            ts |-> m.stop_event.ts, sid |-> m.stop_event.sid,
                            asn |-> m.stop_event.asn, src |-> "none",
                            nest |-> 0, tp |-> 0, content |-> response,
                            images |-> 0])],
                    ts)

RepairLoop(ms, acc) == RepairGaps(ms, acc, OneTranscript)

NoResponse == "None"
NoCounts == [missing |-> 0, repaired |-> 0, failed |-> 0, skipped |-> 0]

IdleRepair ==
    [missing |-> <<>>, dry_run |-> FALSE, ran |-> FALSE, result |-> NoCounts]

\* History of one repair_session call: its number, its argument, whether it
\* returned, what it returned, and the log, the transcript's response and
\* the number of process_event calls at its start.
NoRun ==
    [n |-> 0, dry_run |-> FALSE, ran |-> FALSE, result |-> NoCounts,
     f0 |-> <<>>, t0 |-> NoText, h0 |-> 0]

\* The history of the call of repair_session that begins now, and of the
\* call before it.
StartRepair ==
    [op |-> "repair_session", n |-> repairs + 1, f0 |-> file,
     t0 |-> get_response(transcript), h0 |-> Len(hist),
     prev |-> IF call.op = "repair_session"
              THEN [n |-> call.n, dry_run |-> rs.dry_run, ran |-> rs.ran,
                    result |-> rs.result, f0 |-> call.f0, t0 |-> call.t0,
                    h0 |-> call.h0]
              ELSE NoRun]

\* "if not dry_run and repaired > 0" rewriting in every case: a faulty
\* variant.
ShouldRewrite_Always(dry_run, repaired) == TRUE

\* "if not dry_run and repaired > 0": whether the log is rewritten.
ShouldRewrite(dry_run, repaired) == ~dry_run /\ repaired > 0

\* repair_session up to "if not missing": analyze_session reads the log.
\* A line json.loads rejects raises out of the tool.
RepairSession(dry) ==
    /\ wr[Repairer].pc = "idle"
    /\ repairs < MaxRepairs
    /\ repairs' = repairs + 1
    /\ LET r == read_session(file)
           missing == analyze_session(r.evs)
       IN  IF r.ok /\ missing # <<>>
           THEN /\ rs' = [IdleRepair EXCEPT !.missing = missing, !.dry_run = dry]
                /\ wr' = [wr EXCEPT ![Repairer].pc = "rread",
                                    ![Repairer].phase = "repair"]
           ELSE /\ rs' = [IdleRepair EXCEPT !.dry_run = dry, !.ran = r.ok]
                /\ wr' = wr
    /\ UNCHANGED <<file, lock, sys, torn, sy, idxVars, transcript, rd, clock,
                   nextId, histVars, syncs>>

RAnalyze(dry) == RepairSession(dry) /\ UNCHANGED call

\* The same step with the history of the call kept in call.
RAnalyzeLogged(dry) == RepairSession(dry) /\ call' = StartRepair

\* repair_session from "Read all events" to the rewrite: the second read of
\* the log, the loop over the gaps, the counts.
RRead ==
    /\ wr[Repairer].pc = "rread"
    /\ LET r == read_session(file)
           out == RepairLoop(Reverse(rs.missing),
                     [events |-> r.evs, last_response |-> NoResponse,
                      repaired |-> 0, failed |-> 0, skipped |-> 0])
           result == [missing |-> Len(rs.missing), repaired |-> out.repaired,
                      failed |-> out.failed, skipped |-> out.skipped]
       IN  IF ~r.ok
           THEN /\ rs' = [rs EXCEPT !.ran = FALSE]
                /\ wr' = [wr EXCEPT ![Repairer] = IdleWriter]
           ELSE /\ rs' = [rs EXCEPT !.result = result, !.ran = TRUE]
                /\ wr' = [wr EXCEPT ![Repairer] =
                            IF ShouldRewrite(rs.dry_run, out.repaired)
                            THEN [IdleWriter EXCEPT
                                    !.pc = "ropen", !.phase = "repair",
                                    !.todo = out.events, !.mode = "w"]
                            ELSE IdleWriter]
    /\ UNCHANGED <<call, file, lock, sys, torn, sy, idxVars, transcript, rd, clock,
                   nextId, histVars, syncs, repairs>>

\* open(session_path, "w") of repair_session: truncates; no lock is taken.
ROpen ==
    /\ wr[Repairer].pc = "ropen"
    /\ sys.who = NoOne
    /\ file' = <<>>
    /\ wr' = [wr EXCEPT ![Repairer].pc = "write"]
    /\ UNCHANGED <<call, lock, sys, torn, rs, sy, idxVars, transcript, rd, clock,
                   nextId, histVars, syncs, repairs>>


\* repair_session on a log f with the transcript files ts, run alone: the
\* counts it returns and the log it leaves.
repair_session(f, ts, dry_run) ==
    LET r == read_session(f)
        missing == GapsIn(r.evs, 1, ts)
        out == RepairGaps(Reverse(missing),
                  [events |-> r.evs, last_response |-> NoResponse,
                   repaired |-> 0, failed |-> 0, skipped |-> 0], ts)
    IN  IF missing = <<>>
        THEN [result |-> NoCounts, file |-> f]
        ELSE [result |-> [missing |-> Len(missing), repaired |-> out.repaired,
                          failed |-> out.failed, skipped |-> out.skipped],
              file |-> IF ShouldRewrite(dry_run, out.repaired)
                       THEN SerAll(out.events) ELSE f]

\* One call of repair_session with nothing else running.
RepairAlone ==
    /\ call.op = "repair"
    /\ LET r == repair_session(call.f0, call.ts, call.dry_run)
       IN  call' = [op |-> "repaired", f0 |-> call.f0, ts |-> call.ts,
                    dry_run |-> call.dry_run, result |-> r.result,
                    file |-> r.file]
    /\ UNCHANGED logVars

\* ------------------------------------------------------------- SQLiteStorage
\* The columns of table events (the images field has no column).
Row(e) ==
    [id |-> e.id, sid |-> e.sid, type |-> e.type, ts |-> e.ts, asn |-> e.asn,
     src |-> e.src, nest |-> e.nest, tp |-> e.tp, content |-> e.content]

\* insert_event: INSERT OR REPLACE on the primary key id of events; a plain
\* row insert into events_fts, which has no key, when content is non-empty.
insert_event(db, e) ==
    [events |-> {r \in db.events : r.id # e.id} \cup {Row(e)},
     fts |-> IF e.content # NoText
             THEN Append(db.fts, [event_id |-> e.id, content |-> e.content])
             ELSE db.fts]

RECURSIVE InsertAll(_, _)
InsertAll(db, evs) ==
    IF evs = <<>> THEN db
    ELSE InsertAll(insert_event(db, Head(evs)), Tail(evs))

\* SQLiteStorage.search joined on events: the ids a query for token q
\* returns, one per matching full-text row.
search(q) ==
    [i \in 1..Len(SelectSeq(fts,
          LAMBDA x : x.content = q /\ \E r \in events : r.id = x.event_id))
       |-> SelectSeq(fts,
          LAMBDA x : x.content = q /\ \E r \in events : r.id = x.event_id)[i].event_id]

SetMin(S) == CHOOSE x \in S : \A y \in S : x <= y
SetMax(S) == CHOOSE x \in S : \A y \in S : x >= y

\* _update_session_from_events: MIN(ts), MAX(ts), COUNT(*) of the session's
\* rows; nothing is written when there is no row.
SessionRow(rows, old) ==
    IF rows = {} THEN old
    ELSE [event_count |-> Cardinality(rows),
          started_at |-> SetMin({r.ts : r \in rows}),
          ended_at |-> SetMax({r.ts : r \in rows})]

\* An event's data without a cwd entry, and a session row not yet written.
NoCwd == "None"
NoSession == [event_count |-> 0, started_at |-> 0, ended_at |-> 0, cwd |-> NoCwd]

\* _update_session_from_events with its cwd: that of first_event_data, the
\* first event of this pass, when its data has one; else that of the row
\* "WHERE type = 'SessionStart' LIMIT 1" returns, which no ORDER BY fixes.
\* The session rows the call may write.
update_session_from_events(rows, first_event_data, old) ==
    IF rows = <<>> THEN {old}
    ELSE LET stats == SessionRow({rows[i] : i \in 1..Len(rows)}, NoRollup)
             starts == {i \in 1..Len(rows) : rows[i].type = "SessionStart"}
             cwds == IF first_event_data.cwd # NoCwd
                     THEN {first_event_data.cwd}
                     ELSE IF starts = {} THEN {NoCwd}
                     ELSE {rows[i].cwd : i \in starts}
         IN  {[event_count |-> stats.event_count,
               started_at |-> stats.started_at, ended_at |-> stats.ended_at,
               cwd |-> c] : c \in cwds}

\* ------------------------------------------------ extract_images_from_prompt
\* The content blocks of a prompt: text, an image given by URL, base64
\* images of two different contents.
MaxBlocks == 3
Blocks ==
    {[type |-> "text", data |-> "none"], [type |-> "url", data |-> "none"],
     [type |-> "base64", data |-> "bytesA"],
     [type |-> "base64", data |-> "bytesB"]}
Prompts == UNION {[1..m -> Blocks] : m \in 0..MaxBlocks}

\* hashlib.sha256(image_bytes).hexdigest()[:12]
ContentHash(data) == <<"sha256", data>>

\* f"{content_hash}_{event_id}_{idx}{ext}", idx counted from 0.
ImageFileName(data, event_id, idx) ==
    [hash |-> ContentHash(data), event_id |-> event_id, idx |-> idx]

\* The loop over enumerate(prompt): the files of the image directory and
\* the references after the blocks from position i (1-based) on.
RECURSIVE ExtractFrom(_, _, _, _)
ExtractFrom(prompt, event_id, i, acc) ==
    IF i > Len(prompt) THEN acc
    ELSE LET block == prompt[i]
             filename == ImageFileName(block.data, event_id, i - 1)
         IN  ExtractFrom(prompt, event_id, i + 1,
                IF block.type = "base64"
                THEN [files |-> acc.files \cup {filename},
                      image_refs |-> Append(acc.image_refs,
                          [type |-> "image", path |-> filename, index |-> i - 1])]
                ELSE IF block.type = "url"
                THEN [acc EXCEPT !.image_refs =
                          Append(@, [type |-> "image", path |-> "url",
                                     index |-> i - 1])]
                ELSE acc)

\* extract_images_from_prompt for a prompt that is a list of blocks.
extract_images_from_prompt(prompt, event_id, files) ==
    ExtractFrom(prompt, event_id, 1, [files |-> files, image_refs |-> <<>>])

\* A call of extract_images_from_prompt on an empty image directory.
ExtractImages ==
    /\ call.op = "prompt"
    /\ call' = [call EXCEPT
                  !.op = "extract_images_from_prompt",
                  !.out = extract_images_from_prompt(call.prompt,
                                                     call.event_id, {})]
    /\ UNCHANGED logVars

\* ----------------------------------------------------------- EmbeddingStorage
\* The greatest limit of a search call.
MaxLimit == 2

\* results[:n]
Take(l, n) == SubSeq(l, 1, IF n < Len(l) THEN n ELSE Len(l))

\* Embeddings with whole-number components of two dimensions.
MaxComp == 1
Vectors == [1..2 -> (0 - MaxComp)..MaxComp]
Dot(u, v) == u[1] * v[1] + u[2] * v[2]

\* The score of the linear scan, dot_product / (norm1 * norm2) or 0.0 when
\* a norm is 0, kept exact as num / sqrt(den2).
Cosine(q, e) ==
    IF Dot(q, q) = 0 \/ Dot(e, e) = 0 THEN [num |-> 0, den2 |-> 1]
    ELSE [num |-> Dot(q, e), den2 |-> Dot(q, q) * Dot(e, e)]

\* The score of the vec0 index, 1 - distance, where the distance of a
\* column declared without a metric is the Euclidean one: kept exact as
\* 1 - sqrt(d2).
OneMinusDistance(q, e) ==
    [d2 |-> (q[1] - e[1]) * (q[1] - e[1]) + (q[2] - e[2]) * (q[2] - e[2])]

\* x >= y for two scores of the linear scan.
CosGE(x, y) ==
    IF x.num >= 0 /\ y.num < 0 THEN TRUE
    ELSE IF x.num < 0 /\ y.num >= 0 THEN FALSE
    ELSE IF x.num >= 0
         THEN x.num * x.num * y.den2 >= y.num * y.num * x.den2
         ELSE x.num * x.num * y.den2 <= y.num * y.num * x.den2

\* results.sort(key=lambda x: -x[1]), stable, over the rows in table order.
RECURSIVE SortByScore(_, _)
SortByScore(rows, sorted) ==
    IF rows = <<>> THEN sorted
    ELSE LET r == Head(rows)
             before == SelectSeq(sorted, LAMBDA x : CosGE(x.score, r.score))
             after == SelectSeq(sorted, LAMBDA x : ~CosGE(x.score, r.score))
         IN  SortByScore(Tail(rows), before \o <<r>> \o after)

\* The linear scan of EmbeddingStorage.search; every row has its metadata.
FallbackSearch(q, stored, limit) ==
    LET ids == SelectSeq(<<"e1", "e2", "e3">>, LAMBDA i : i \in DOMAIN stored)
        rows == [k \in 1..Len(ids) |->
                   [event_id |-> ids[k], score |-> Cosine(q, stored[ids[k]])]]
    IN  Take(SortByScore(rows, <<>>), limit)

\* The vec0 query of EmbeddingStorage.search: ORDER BY distance LIMIT ?,
\* rows of equal distance in any order.
NativeSearches(q, stored, limit) ==
    LET ids == DOMAIN stored
        orders == {l \in [1..Cardinality(ids) -> ids] :
                     /\ \A i, j \in DOMAIN l : l[i] = l[j] => i = j
                     /\ \A i, j \in DOMAIN l :
                            i < j => OneMinusDistance(q, stored[l[i]]).d2
                                       <= OneMinusDistance(q, stored[l[j]]).d2}
    IN  {Take([k \in DOMAIN l |->
                 [event_id |-> l[k],
                  score |-> OneMinusDistance(q, stored[l[k]])]], limit) :
            l \in orders}

\* A call of EmbeddingStorage.search with or without the vec0 extension.
SearchEmbeddings ==
    /\ call.op = "vectors"
    /\ \E out \in IF call.has_vec
                   THEN NativeSearches(call.query, call.stored, call.limit)
                   ELSE {FallbackSearch(call.query, call.stored, call.limit)} :
          call' = [call EXCEPT !.op = "EmbeddingStorage.search", !.out = out]
    /\ UNCHANGED logVars

\* ------------------------------------------------------------------- main
\* The steps of main for an event type, in the order of the code:
\* json.load, process_event up to the event, the image extraction (from the
\* prompt before the append, from the transcript after it), the append,
\* generate_markdown on the key events.
MainSteps(event_type) ==
    IF event_type = "UserPromptSubmit"
    THEN <<"load", "process", "images", "append", "markdown">>
    ELSE IF event_type = "Stop"
    THEN <<"load", "process", "append", "images", "markdown">>
    ELSE <<"load", "process", "append">>

\* What the hook process is given: the event type of the command line, the
\* text on stdin, the steps that raise when reached, and whether
\* errors.log can be written.
StdinKinds == {"malformed", "non_object", "object"}
MainInputs ==
    [op : {"main"}, event : {"UserPromptSubmit", "Stop", "PreToolUse"},
     stdin : StdinKinds,
     faults : SUBSET {"process", "images", "append", "markdown"},
     errlog_ok : BOOLEAN,
     pc : {1}, errors : {<<>>}, raised : {<<>>}, stdout : {<<>>},
     escaped : {FALSE}, status : {"running"}]

\* The except clause that takes an exception of a step: main's, the one
\* around the image extraction, the one around generate_markdown.
HandlerOf(step) ==
    IF step = "images" THEN "step"
    ELSE IF step = "markdown" THEN "pass"
    ELSE "main"

\* The label recorded with every error being the step's: a faulty variant.
ErrorLabel_Step(step, event_type) ==
    IF event_type = "UserPromptSubmit" THEN "ImageExtraction"
    ELSE "ImageExtractionFromTranscript"

\* The second argument of log_error.
ErrorLabel(step, event_type) ==
    IF HandlerOf(step) = "main" THEN event_type
    ELSE IF event_type = "UserPromptSubmit" THEN "ImageExtraction"
    ELSE "ImageExtractionFromTranscript"

\* log_error: a line with the time and the label, unless writing it
\* fails, which is passed over.
log_error(c, step) ==
    IF c.errlog_ok
    THEN Append(c.errors, [ts |-> c.pc, label |-> ErrorLabel(step, c.event),
                           step |-> step])
    ELSE c.errors

\* Whether the step raises: a fault of the step, text json.load rejects,
\* a value without .get.
Raises(c, step) ==
    \/ step \in c.faults
    \/ step = "load" /\ c.stdin = "malformed"
    \/ step = "process" /\ c.stdin = "non_object"

\* One step of main: on an exception the handler of the step, else the
\* next step; past the last step main returns.
MainAfter(c, step) ==
    LET last == c.pc = Len(MainSteps(c.event))
        go == [c EXCEPT !.pc = IF last THEN 0 ELSE @ + 1,
                        !.status = IF last THEN "0" ELSE @]
    IN  IF ~Raises(c, step) THEN go
        ELSE IF HandlerOf(step) = "main"
        THEN [c EXCEPT !.errors = log_error(c, step),
                       !.raised = Append(@, step),
                       !.pc = 0, !.status = "0"]
        ELSE IF HandlerOf(step) = "step"
        THEN [go EXCEPT !.errors = log_error(c, step),
                        !.raised = Append(@, step)]
        ELSE [go EXCEPT !.raised = Append(@, step)]

AtStep(step) ==
    /\ call.op = "main"
    /\ call.pc > 0
    /\ MainSteps(call.event)[call.pc] = step

\* json.load(sys.stdin)
MainLoad ==
    /\ AtStep("load")
    /\ call' = MainAfter(call, "load")
    /\ UNCHANGED logVars

\* process_event up to the event built
MainProcess ==
    /\ AtStep("process")
    /\ call' = MainAfter(call, "process")
    /\ UNCHANGED logVars

\* extract_images_from_prompt, or extract_images_from_transcript with
\* update_session_with_images
MainImages ==
    /\ AtStep("images")
    /\ call' = MainAfter(call, "images")
    /\ UNCHANGED logVars

\* append_events
MainAppend ==
    /\ AtStep("append")
    /\ call' = MainAfter(call, "append")
    /\ UNCHANGED logVars

\* generate_markdown
MainMarkdown ==
    /\ AtStep("markdown")
    /\ call' = MainAfter(call, "markdown")
    /\ UNCHANGED logVars

\* -------------------------------------------------------------- SearchService
\* Lengths of the result lists given to reciprocal_rank_fusion.
MaxKeyword == 3
MaxSemantic == 2

\* The parameter k of reciprocal_rank_fusion.
RRF_K == 60

\* Fused scores are kept as exact fractions of RRFScale, a common multiple
\* of the denominators k + rank + 1 of all ranks.
MaxRank == IF MaxKeyword > MaxSemantic THEN MaxKeyword ELSE MaxSemantic
RECURSIVE Product(_, _)
Product(a, b) == IF a > b THEN 1 ELSE a * Product(a + 1, b)
RRFScale == Product(RRF_K + 1, RRF_K + MaxRank)

\* rrf_score = 1 / (k + rank + 1), rank counted from 0.
RRFTerm(rank) == RRFScale \div (RRF_K + rank + 1)

\* dict.get(key, default) and dict[key] = v; order is the dict's key order
\* (insertion order).
DictGet(d, key, default) == IF key \in DOMAIN d THEN d[key] ELSE default
DictSet(d, key, v) ==
    [x \in DOMAIN d \cup {key} |-> IF x = key THEN v ELSE d[x]]
EmptyDict == [x \in {} |-> 0]
NoScores ==
    [scores |-> EmptyDict, order |-> <<>>, result_map |-> EmptyDict,
     cosine_scores |-> EmptyDict]

\* The loop over enumerate(keyword_results).
RECURSIVE ScoreKeyword(_, _, _)
ScoreKeyword(l, rank, acc) ==
    IF l = <<>> THEN acc
    ELSE LET result == Head(l)
             id == result.event_id
         IN  ScoreKeyword(Tail(l), rank + 1,
                [acc EXCEPT
                   !.scores = DictSet(@, id, DictGet(@, id, 0) + RRFTerm(rank)),
                   !.order = IF id \in DOMAIN acc.scores THEN @
                             ELSE Append(@, id),
                   !.result_map = DictSet(@, id, result)])

\* The loop over enumerate(semantic_results).
RECURSIVE ScoreSemantic(_, _, _)
ScoreSemantic(l, rank, acc) ==
    IF l = <<>> THEN acc
    ELSE LET result == Head(l)
             id == result.event_id
         IN  ScoreSemantic(Tail(l), rank + 1,
                [acc EXCEPT
                   !.scores = DictSet(@, id, DictGet(@, id, 0) + RRFTerm(rank)),
                   !.order = IF id \in DOMAIN acc.scores THEN @
                             ELSE Append(@, id),
                   !.cosine_scores = DictSet(@, id, result.cosine_similarity),
                   !.result_map = IF id \in DOMAIN acc.result_map THEN @
                                  ELSE DictSet(@, id, result)])

\* An insertion that puts an id before the ids of equal score: a faulty
\* variant.
InsertSorted_TiesFirst(sorted, id, scores) ==
    LET before == SelectSeq(sorted, LAMBDA x : scores[x] > scores[id])
        after == SelectSeq(sorted, LAMBDA x : scores[x] <= scores[id])
    IN  before \o <<id>> \o after

\* sorted(scores.keys(), key=lambda x: -scores[x]): list.sort is stable, so
\* an id goes after the ids of greater or equal score met before it.
InsertSorted(sorted, id, scores) ==
    LET before == SelectSeq(sorted, LAMBDA x : scores[x] >= scores[id])
        after == SelectSeq(sorted, LAMBDA x : scores[x] < scores[id])
    IN  before \o <<id>> \o after

RECURSIVE SortedIds(_, _, _)
SortedIds(order, scores, sorted) ==
    IF order = <<>> THEN sorted
    ELSE SortedIds(Tail(order), scores, InsertSorted(sorted, Head(order), scores))

\* SearchResult as far as the fusion reads and writes it.
\* A result whose score has the similarity added to it: a faulty variant.
SearchResult_Mixed(event_id, score, source, cosine) ==
    [event_id |-> event_id, score |-> score + cosine, source |-> source,
     cosine_similarity |-> cosine]

SearchResult(event_id, score, source, cosine) ==
    [event_id |-> event_id, score |-> score, source |-> source,
     cosine_similarity |-> cosine]

\* SearchService.reciprocal_rank_fusion with the default k.
reciprocal_rank_fusion(keyword_results, semantic_results) ==
    LET acc == ScoreSemantic(semantic_results, 0,
                   ScoreKeyword(keyword_results, 0, NoScores))
        sorted_ids == SortedIds(acc.order, acc.scores, <<>>)
    IN  [i \in 1..Len(sorted_ids) |->
            SearchResult(acc.result_map[sorted_ids[i]].event_id,
                         acc.scores[sorted_ids[i]], "hybrid",
                         DictGet(acc.cosine_scores, sorted_ids[i], 0))]

\* Result lists: keyword_search gives one result per matching row of
\* events_fts, so an event indexed twice comes twice; EmbeddingStorage.search
\* gives one result per row of embeddings, whose key is the event id.
EventIds == {"e1", "e2", "e3"}
SeqsUpTo(S, n) == UNION {[1..m -> S] : m \in 0..n}
Injective(l) == \A i, j \in 1..Len(l) : l[i] = l[j] => i = j
KeywordLists ==
    {[i \in 1..Len(l) |-> SearchResult(l[i], Len(l) + 1 - i, "keyword", 0)] :
        l \in SeqsUpTo(EventIds, MaxKeyword)}
SemanticLists ==
    {[i \in 1..Len(l) |-> SearchResult(l[i], 90 - 10 * i, "semantic", 90 - 10 * i)] :
        l \in {x \in SeqsUpTo(EventIds, MaxSemantic) : Injective(x)}}

\* The embedding object a SearchService is constructed with: none, one
\* whose model did not load (encode returns []), one with a model.
EmbeddingObjects == {"None", "no_model", "model"}

\* EmbeddingService.encode(texts) for one text: the list of embeddings.
encode(embeddings) == IF embeddings = "model" THEN <<"vector">> ELSE <<>>

\* SearchService.semantic_search over the rows the store would return in
\* order of similarity: encode([query])[0] raises IndexError on [].
semantic_search(embeddings, rows, limit) ==
    IF embeddings = "None" THEN [raised |-> "none", results |-> <<>>]
    ELSE IF Len(encode(embeddings)) < 1
         THEN [raised |-> "IndexError", results |-> <<>>]
         ELSE [raised |-> "none", results |-> Take(rows, limit)]

\* SearchService.keyword_search over the matching rows in bm25 order.
keyword_search(rows, limit) == Take(rows, limit)

\* SearchService.hybrid_search; no exception is handled in it.
hybrid_search(embeddings, kw_rows, sem_rows, limit, use_semantic) ==
    LET keyword_results == keyword_search(kw_rows, limit * 2)
        sem == IF use_semantic /\ embeddings # "None"
               THEN semantic_search(embeddings, sem_rows, limit * 2)
               ELSE [raised |-> "none", results |-> <<>>]
        results == IF sem.results # <<>>
                   THEN reciprocal_rank_fusion(keyword_results, sem.results)
                   ELSE keyword_results
    IN  IF sem.raised # "none"
        THEN [raised |-> sem.raised, results |-> <<>>]
        ELSE [raised |-> "none", results |-> Take(results, limit)]

\* The type and the timestamp the index holds for each event.
EventType(id) ==
    IF id = "e1" THEN "UserPromptSubmit"
    ELSE IF id = "e2" THEN "AssistantResponse" ELSE "Stop"

Timestamp(id) == IF id = "e1" THEN 1 ELSE IF id = "e2" THEN 2 ELSE 3

\* Filters as the callers give them: no event_types is the empty set, no
\* date is 0.
NoDate == 0
TypeFilters == {{}, {"UserPromptSubmit"}, {"UserPromptSubmit", "Stop"}}
DateFilters == {NoDate, 2}

\* The WHERE clause keyword_search builds: "AND e.type IN (...)",
\* "AND e.ts >= ?", "AND e.ts <= ?", each only for a filter that is given.
Where(id, event_types, date_from, date_to) ==
    /\ event_types # {} => EventType(id) \in event_types
    /\ date_from # NoDate => Timestamp(id) >= date_from
    /\ date_to # NoDate => Timestamp(id) <= date_to

RECURSIVE Select(_, _, _, _)
Select(rows, event_types, date_from, date_to) ==
    IF rows = <<>> THEN <<>>
    ELSE (IF Where(Head(rows).event_id, event_types, date_from, date_to)
          THEN <<Head(rows)>> ELSE <<>>)
         \o Select(Tail(rows), event_types, date_from, date_to)

\* hybrid_search with filters: keyword_search gets all three and puts them
\* in its SQL; semantic_search gets event_types only and hands it to
\* EmbeddingStorage.search, whose queries do not use its filters argument.
hybrid_search_filtered(emb, kw_rows, sem_rows, limit, use_sem, types, from, to) ==
    hybrid_search(emb, Select(kw_rows, types, from, to), sem_rows, limit,
                  use_sem)

\* A call of hybrid_search with the filters drawn at the start.
HybridSearchFiltered ==
    /\ call.op = "filtered_query"
    /\ call' = [call EXCEPT
                  !.op = "hybrid_search_filtered",
                  !.out = hybrid_search_filtered(call.embeddings, call.kw_rows,
                              call.sem_rows, call.limit, call.use_semantic,
                              call.event_types, call.date_from, call.date_to)]
    /\ UNCHANGED logVars

\* A call of hybrid_search on the index drawn at the start.
HybridSearch ==
    /\ call.op = "query"
    /\ call' = [call EXCEPT
                  !.op = "hybrid_search",
                  !.out = hybrid_search(call.embeddings, call.kw_rows,
                                        call.sem_rows, call.limit,
                                        call.use_semantic)]
    /\ UNCHANGED logVars

\* A call of reciprocal_rank_fusion on the lists drawn at the start.
Fuse ==
    /\ call.op = "lists"
    /\ call' = [op |-> "reciprocal_rank_fusion",
                keyword_results |-> call.keyword_results,
                semantic_results |-> call.semantic_results,
                results |-> reciprocal_rank_fusion(call.keyword_results,
                                                   call.semantic_results)]
    /\ UNCHANGED logVars

\* --------------------------------------------------------------- sync_session
AllIdle == \A p \in Writers : wr[p].pc = "idle"

\* Writer calls begun so far.
WriterCalls == Len(hist) + repairs

\* The value of lastSync when a sync_session call ends now.
Ended == IF AllIdle THEN WriterCalls ELSE 0 - 1

\* last_pos = self.sqlite.get_sync_position(session_id)
SyncStart(s) ==
    /\ sy[s].pc = "idle"
    /\ syncs < MaxSyncs
    /\ syncs' = syncs + 1
    /\ sy' = [sy EXCEPT ![s] =
                [IdleSync EXCEPT !.pc = "stat", !.last_pos = cursor,
                                 !.h0 = IF AllIdle THEN WriterCalls ELSE 0 - 1,
                                 !.prev = lastSync,
                                 !.d0 = Len(done),
                                 !.snap = [events |-> events, fts |-> fts,
                                           cursor |-> cursor, rollup |-> rollup]]]
    /\ UNCHANGED <<call, file, lock, sys, torn, wr, rs, idxVars, transcript, rd,
                   clock, nextId, histVars, repairs>>

\* current_pos = st_size; "if current_pos <= last_pos: return 0"
SyncStat(s) ==
    /\ sy[s].pc = "stat"
    /\ sy' = [sy EXCEPT ![s].current_pos = Len(file),
                        ![s].pc = IF Len(file) <= sy[s].last_pos
                                  THEN "idle" ELSE "read",
                        ![s].ret = IF Len(file) <= sy[s].last_pos
                                   THEN "0" ELSE "none"]
    /\ lastSync' = IF Len(file) <= sy[s].last_pos THEN Ended ELSE lastSync
    /\ UNCHANGED <<call, file, lock, sys, torn, wr, rs, idxVars, transcript, rd,
                   clock, nextId, hist, done, syncs, repairs>>

\* f.seek(last_pos) and the loop over the lines up to end of file, each
\* event inserted and committed.  json.loads raising ends the call.
ReadLoop(s) ==
    /\ sy[s].pc = "read"
    /\ LET data == SubSeq(file, sy[s].last_pos + 1, Len(file))
           r == LoadLines(Lines(data))
           db == InsertAll([events |-> events, fts |-> fts], r.evs)
       IN  /\ events' = db.events
           /\ fts' = db.fts
           /\ sy' = [sy EXCEPT ![s].n = Len(r.evs),
                               ![s].pc = IF r.ok THEN "cursor" ELSE "idle",
                               ![s].ret = IF r.ok THEN "none" ELSE "error"]
           /\ lastSync' = IF r.ok THEN lastSync ELSE Ended
    /\ UNCHANGED <<file, lock, sys, torn, wr, rs, cursor, rollup, transcript,
                   rd, clock, nextId, hist, done, syncs, repairs>>

SyncRead(s) == ReadLoop(s) /\ UNCHANGED call

\* What the sync_session calls of a session have done so far: the sum of the
\* values they returned and the number of events of the log up to the end
\* of file the last read loop reached.
SyncTotals(total, read) ==
    [op |-> "sync_session", total |-> total, read |-> read]

SyncedSoFar == IF call.op = "sync_session" THEN call.total ELSE 0

\* The read loop, with the number of events of the log it has come past.
SyncReadCounted(s) ==
    /\ ReadLoop(s)
    /\ call' = SyncTotals(SyncedSoFar, Len(LoadLines(Lines(file)).evs))

\* self.sqlite.update_sync_position(session_id, current_pos)
SyncCursor(s) ==
    /\ sy[s].pc = "cursor"
    /\ cursor' = sy[s].current_pos
    /\ sy' = [sy EXCEPT ![s].pc = "rollup"]
    /\ UNCHANGED <<call, file, lock, sys, torn, wr, rs, events, fts, rollup,
                   transcript, rd, clock, nextId, histVars, syncs, repairs>>

\* self._update_session_from_events(...); return events_synced
ReturnSynced(s) ==
    /\ sy[s].pc = "rollup"
    /\ rollup' = SessionRow(events, rollup)
    /\ sy' = [sy EXCEPT ![s].pc = "idle", ![s].ret = ToString(sy[s].n)]
    /\ lastSync' = Ended
    /\ UNCHANGED <<file, lock, sys, torn, wr, rs, events, fts, cursor,
                   transcript, rd, clock, nextId, hist, done, syncs, repairs>>

SyncRollup(s) == ReturnSynced(s) /\ UNCHANGED call

\* The return, with the returned value added to the sum.
SyncRollupCounted(s) ==
    /\ ReturnSynced(s)
    /\ call' = SyncTotals(SyncedSoFar + sy[s].n, call.read)

\* Position pos of f is directly after a newline.
OnBoundary(f, pos) == pos <= Len(f) /\ pos >= 1 /\ IsNewline(f[pos])

\* sync_session on the log f of a session with the stored cursor last_pos,
\* nothing else running: whether it raised, the events it inserted, the
\* count it would return and the cursor it leaves.
sync_session(f, last_pos) ==
    IF Len(f) <= last_pos
    THEN [raised |-> FALSE, n |-> 0, cursor |-> last_pos, evs |-> <<>>]
    ELSE LET r == LoadLines(Lines(SubSeq(f, last_pos + 1, Len(f))))
         IN  [raised |-> ~r.ok, n |-> Len(r.evs),
              cursor |-> IF r.ok THEN Len(f) ELSE last_pos, evs |-> r.evs]

\* sync_all: "for session_id in list_sessions(): total += sync_session(...)"
\* over the sessions in the order the directory listing gives; an exception
\* of sync_session is not handled and leaves the loop.
RECURSIVE sync_all(_, _, _)
sync_all(order, logs, st) ==
    IF order = <<>> THEN st
    ELSE LET s == Head(order)
             r == sync_session(logs[s], st.cursors[s])
             st2 == [cursors |-> [st.cursors EXCEPT ![s] = r.cursor],
                     index |-> st.index \cup {r.evs[i] : i \in 1..Len(r.evs)},
                     total |-> st.total + r.n,
                     raised |-> r.raised]
         IN  IF r.raised THEN st2 ELSE sync_all(Tail(order), logs, st2)

\* ---------------------------------------------------------------- read_session
ReadSession ==
    /\ LET r == read_session(file)
       IN  rd' = [evs |-> r.evs, ok |-> r.ok, called |-> TRUE]
    /\ UNCHANGED <<call, file, lock, sys, torn, wr, rs, sy, idxVars, transcript,
                   clock, nextId, histVars, syncs, repairs>>

\* ------------------------------------------------------------- specifications
\* The transcript file: missing, or with a last assistant text (possibly
\* none) and the ordinals of the user messages that hold images.
NoTranscript == [exists |-> FALSE, resp |-> NoText, imgs |-> {}]
Transcripts ==
    {NoTranscript}
    \cup [exists : {TRUE}, resp : {NoText, ShortResp, LongResp},
          imgs : SUBSET {0}]

InitLog(ts, t0) ==
    /\ file = <<>>
    /\ lock = NoOne
    /\ sys = NoSys
    /\ torn = t0
    /\ wr = [p \in Writers |-> IdleWriter]
    /\ rs = IdleRepair
    /\ sy = [s \in Syncers |-> IdleSync]
    /\ events = {}
    /\ fts = <<>>
    /\ cursor = 0
    /\ rollup = NoRollup
    /\ transcript \in ts
    /\ rd = NoRead
    /\ clock = 0
    /\ nextId = 0
    /\ hist = <<>>
    /\ done = <<>>
    /\ syncs = 0
    /\ repairs = 0
    /\ lastSync = 0 - 1

InitWith(ts, t0) == InitLog(ts, t0) /\ call = NoCall

IngestStep(p) ==
    \/ Lock(p)
    \/ WriteStep(p)
    \/ Unlock(p)
    \/ Close(p)
    \/ ImgRead(p)
    \/ ImgOpen(p)

SyncStep(s) ==
    \/ SyncStart(s)
    \/ SyncStat(s)
    \/ SyncRead(s)
    \/ SyncCursor(s)
    \/ SyncRollup(s)

\* Sequential ingestion: one process_event at a time, one sync caller.
InitSeq == InitWith(Transcripts, MaxTorn)
NextSeq ==
    \/ \E in \in Envelopes : sy["s1"].pc = "idle" /\ Begin("p1", in)
    \/ IngestStep("p1")
    \/ AllIdle /\ SyncStart("s1")
    \/ SyncStat("s1")
    \/ SyncRead("s1")
    \/ SyncCursor("s1")
    \/ SyncRollup("s1")
SpecSeq == InitSeq /\ [][NextSeq]_vars

\* Sequential ingestion of prompts and Stop events, and the first sync.
StopEnvelopes ==
    {Envelope("SessionStart", "startup", 0, NoText, 0),
     Envelope("UserPromptSubmit", "none", 0, Prompt, 0),
     Envelope("Stop", "none", 0, NoText, 0),
     Envelope("Stop", "none", 0, NoText, 1)}
InitStop == InitWith(Transcripts, MaxTorn)
NextStop ==
    \/ \E in \in StopEnvelopes : sy["s1"].pc = "idle" /\ Begin("p1", in)
    \/ IngestStep("p1")
    \/ AllIdle /\ syncs < MaxSyncs - 2 /\ SyncStart("s1")
    \/ SyncStat("s1")
    \/ SyncRead("s1")
    \/ SyncCursor("s1")
    \/ SyncRollup("s1")
SpecStop == InitStop /\ [][NextStop]_vars

\* The host (Claude Code) writes the assistant's text to the transcript,
\* which it may do after the Stop hook has run.
HostWrites ==
    /\ transcript.exists
    /\ transcript.resp = NoText
    /\ transcript' = [transcript EXCEPT !.resp = ShortResp]
    /\ UNCHANGED <<call, file, lock, sys, torn, wr, rs, sy, idxVars, rd, clock,
                   nextId, histVars, syncs, repairs>>

PlainEnvelopes ==
    {Envelope("SessionStart", "startup", 0, NoText, 0),
     Envelope("UserPromptSubmit", "none", 0, Prompt, 0)}

\* Concurrent hook processes appending to one session, and a reader.
AppendEnvelopes ==
    {Envelope("UserPromptSubmit", "none", 0, Prompt, 0),
     Envelope("Stop", "none", 0, NoText, 1)}
InitAppend ==
    InitWith([exists : {TRUE}, resp : {ShortResp, LongResp}, imgs : {{}}],
             MaxTorn)
NextAppend ==
    \/ \E p \in Ingest, in \in AppendEnvelopes : Begin(p, in)
    \/ \E p \in Ingest : Lock(p)
    \/ \E p \in Ingest : WriteStep(p)
    \/ \E p \in Ingest : Unlock(p)
    \/ \E p \in Ingest : Close(p)
    \/ \E p \in Ingest : ImgRead(p)
    \/ ReadSession
SpecAppend == InitAppend /\ [][NextAppend]_vars

\* Concurrent hook processes of one session (one of prompts and Stop events
\* with their image correlation, one of prompts) whose writes may fail, each
\* scheduled again and again once it has started: a process that can keep
\* taking a step (one blocked in flock can when the lock is free) takes it.
LiveEnvelopes ==
    {Envelope("UserPromptSubmit", "none", 0, Prompt, 0),
     Envelope("Stop", "none", 0, NoText, 1)}
InitLive ==
    InitWith([exists : {TRUE}, resp : {ShortResp}, imgs : {{0}}], MaxTorn)
NextLive ==
    \/ \E in \in LiveEnvelopes : Begin("p1", in)
    \/ Begin("p2", Envelope("UserPromptSubmit", "none", 0, Prompt, 0))
    \/ \E p \in Ingest : Lock(p)
    \/ \E p \in Ingest : WriteStep(p)
    \/ \E p \in Ingest : WriteFails(p)
    \/ \E p \in Ingest : Unlock(p)
    \/ \E p \in Ingest : Close(p)
    \/ \E p \in Ingest : ImgRead(p)
    \/ \E p \in Ingest : ImgOpen(p)
\* Weak fairness of each step of a started process.  That of ImgRead is
\* written out, with wr[p].pc = "imgread" for ENABLED <<ImgRead(p)>>_vars.
Scheduled(p) ==
    /\ WF_vars(Lock(p))
    /\ WF_vars(WriteStep(p))
    /\ WF_vars(Unlock(p))
    /\ WF_vars(Close(p))
    /\ WF_vars(ImgOpen(p))
    /\ []<>(wr[p].pc # "imgread") \/ []<><<ImgRead(p)>>_vars
SpecLive == InitLive /\ [][NextLive]_vars /\ \A p \in Ingest : Scheduled(p)

\* One hook process whose writes readers may see half done, a reader and a
\* sync caller.
InitTorn == InitWith({NoTranscript}, 0)
NextTorn ==
    \/ \E in \in PlainEnvelopes : Begin("p1", in)
    \/ Lock("p1")
    \/ WriteStep("p1")
    \/ Unlock("p1")
    \/ Close("p1")
    \/ Torn("p1")
    \/ ReadSession
    \/ SyncStep("s1")
SpecTorn == InitTorn /\ [][NextTorn]_vars

\* One hook process and sync_session calls that overlap in time (the API
\* server's sync_all per request, the search tool's).
InitSync == InitWith({NoTranscript}, MaxTorn)
NextSync ==
    \/ Begin("p1", Envelope("UserPromptSubmit", "none", 0, Prompt, 0))
    \/ Lock("p1")
    \/ WriteStep("p1")
    \/ Unlock("p1")
    \/ Close("p1")
    \/ \E s \in Syncers : SyncStep(s)
SpecSync == InitSync /\ [][NextSync]_vars

\* The sessions of a storage directory; each log holds up to two lines, of
\* which one may be cut short, and its cursor is at a line boundary.
SessionIds == {"sa", "sb", "sc"}

SessionEvent(s, i) ==
    [id |-> i, type |-> "UserPromptSubmit", ts |-> i, sid |-> s, asn |-> 0,
     src |-> "none", nest |-> 0, tp |-> 0, content |-> Prompt, images |-> 0]

CutLine(s, i) == SubSeq(Ser(SessionEvent(s, i)), 1, BaseLen - 1)

SessionLogs(s) ==
    {<<>>,
     Ser(SessionEvent(s, 1)),
     Ser(SessionEvent(s, 1)) \o Ser(SessionEvent(s, 2)),
     CutLine(s, 1),
     Ser(SessionEvent(s, 1)) \o CutLine(s, 2)}

Orders == {o \in [1..Cardinality(SessionIds) -> SessionIds] : Injective(o)}

\* sync_all of an index whose cursors are those a first sync left when each
\* log held at most its first line.
SyncAllInputs ==
    {[op |-> "sessions", order |-> o, logs |-> l, cursors |-> c] :
        o \in Orders,
        l \in {x \in [SessionIds -> UNION {SessionLogs(s) : s \in SessionIds}] :
                  \A s \in SessionIds : x[s] \in SessionLogs(s)},
        c \in [SessionIds -> {0, BaseLen}]}

SyncAll ==
    /\ call.op = "sessions"
    /\ call' = [op |-> "sync_all", order |-> call.order, logs |-> call.logs,
                cursors |-> call.cursors,
                out |-> sync_all(call.order, call.logs,
                                 [cursors |-> call.cursors, index |-> {},
                                  total |-> 0, raised |-> FALSE])]
    /\ UNCHANGED logVars

InitSyncAll ==
    /\ InitLog({NoTranscript}, MaxTorn)
    /\ call \in {c \in SyncAllInputs :
                    \A s \in SessionIds :
                        c.cursors[s] = 0 \/ OnBoundary(c.logs[s], c.cursors[s])}
NextSyncAll == SyncAll
SpecSyncAll == InitSyncAll /\ [][NextSyncAll]_vars

\* ------------------------------------------------------------ generate_markdown
\* A subagent's transcript file: missing, or holding a model name and text.
SubagentTranscripts ==
    {[exists |-> FALSE, model |-> "", response |-> ""],
     [exists |-> TRUE, model |-> "opus", response |-> ""],
     [exists |-> TRUE, model |-> "opus", response |-> "done"]}

\* get_subagent_info: read from the transcript file when it is called; any
\* failure gives the empty info.
get_subagent_info(t) ==
    IF t.exists THEN [model |-> t.model, response |-> t.response]
    ELSE [model |-> "", response |-> ""]

\* The loop of generate_markdown over the events (by type), t being the
\* subagents' transcript file at the time of the call: st holds the open
\* prompt, the subagents of the exchange and the lines so far.
RECURSIVE RenderEvents(_, _, _)
RenderEvents(evs, t, st) ==
    IF evs = <<>> THEN st.lines
    ELSE LET e == Head(evs)
             sa == [kind |-> "subagent", ts |-> e.ts] @@ get_subagent_info(t)
             st2 ==
               CASE e.type = "UserPromptSubmit" ->
                      [st EXCEPT !.prompt = e.ts, !.subagents = <<>>]
                 [] e.type = "SubagentStop" /\ st.prompt # 0 ->
                      [st EXCEPT !.subagents = Append(@, sa)]
                 [] e.type = "SubagentStop" /\ st.prompt = 0 ->
                      [st EXCEPT !.lines = Append(@, sa)]
                 [] e.type = "AssistantResponse" ->
                      [prompt |-> 0, subagents |-> st.subagents,
                       lines |-> st.lines
                          \o (IF st.prompt # 0
                              THEN <<[kind |-> "user", ts |-> st.prompt]>>
                                       \o st.subagents
                              ELSE <<>>)
                          \o <<[kind |-> "claude", ts |-> e.ts]>>]
                 [] OTHER ->
                      [st EXCEPT !.lines = Append(@, [kind |-> e.type, ts |-> e.ts])]
         IN  RenderEvents(Tail(evs), t, st2)

\* generate_markdown: the document written, or none when the log is empty
\* (the function returns before md_path.write_text).
NoDocument == <<"unwritten">>
generate_markdown(evs, t) ==
    IF evs = <<>> THEN NoDocument
    ELSE <<[kind |-> "header", ts |-> evs[1].ts]>>
             \o RenderEvents(evs, t, [prompt |-> 0, subagents |-> <<>>,
                                       lines |-> <<>>])

MaxMdLog == 3
MdTypes ==
    {"SessionStart", "UserPromptSubmit", "SubagentStop", "AssistantResponse"}
MdLogs ==
    {[i \in DOMAIN ks |-> [type |-> ks[i], ts |-> i]] :
        ks \in UNION {[1..m -> MdTypes] : m \in 0..MaxMdLog}}

\* Two regenerations of the markdown of one log, the subagent's transcript
\* being what the host has made of it by the time of each.
RenderTwice ==
    /\ call.op = "log"
    /\ call' = [op |-> "generate_markdown", log |-> call.log,
                first |-> call.first, second |-> call.second,
                doc1 |-> generate_markdown(call.log, call.first),
                doc2 |-> generate_markdown(call.log, call.second)]
    /\ UNCHANGED logVars

InitMarkdown ==
    /\ InitLog({NoTranscript}, MaxTorn)
    /\ call \in [op : {"log"}, log : MdLogs, first : SubagentTranscripts,
                  second : SubagentTranscripts]
NextMarkdown == RenderTwice
SpecMarkdown == InitMarkdown /\ [][NextMarkdown]_vars

\* --------------------------------------------------------- backfill_embeddings
MaxRuns == 2
MaxBatchSize == 2

\* The index and the embedding store behind a backfill: for each event id
\* whether it is indexed and with what content, and how often
\* EmbeddingStorage.store committed a record for it.
NotIndexed == "absent"

\* missing_ids computed as all_event_ids alone: a faulty variant.
MissingIds_All(content, stored) ==
    {id \in EventIds : content[id] \notin {NotIndexed, NoText}}

\* missing_ids = all_event_ids - existing_embeddings: the indexed events
\* with non-empty content without a row in embedding_metadata.
MissingIds(content, stored) ==
    {id \in EventIds : content[id] \notin {NotIndexed, NoText}}
        \ {id \in EventIds : stored[id] > 0}

\* list(missing_ids): the ids in any order.
Listings(S) == {l \in [1..Cardinality(S) -> S] : Injective(l)}

IdleRun ==
    [pc |-> "idle", dry_run |-> FALSE, batch_size |-> 1, list |-> <<>>,
     processed |-> 0, todo |-> <<>>, fetched |-> 0, missing |-> {},
     stored0 |-> [id \in EventIds |-> 0], ended |-> "none"]

\* backfill_embeddings up to the batch loop.
BackfillStart ==
    /\ call.run.pc = "idle"
    /\ call.runs < MaxRuns
    /\ \E dry \in BOOLEAN, size \in 1..MaxBatchSize :
         LET missing == MissingIds(call.content, call.stored)
         IN  \E l \in Listings(missing) :
                 call' = [call EXCEPT
                    !.runs = @ + 1,
                    !.run = [IdleRun EXCEPT
                        !.pc = IF dry \/ missing = {} THEN "idle" ELSE "batch",
                        !.dry_run = dry, !.batch_size = size, !.list = l,
                        !.missing = missing, !.stored0 = call.stored,
                        !.ended = IF dry \/ missing = {} THEN "returned"
                                  ELSE "none"]]
    /\ UNCHANGED logVars

\* One turn of "while processed < missing_count" up to the stores: the
\* slice, the rows fetched for it, encode returning one vector per row.
BackfillBatch ==
    /\ call.run.pc = "batch"
    /\ LET r == call.run
           upto == IF r.processed + r.batch_size > Len(r.list) THEN Len(r.list)
                   ELSE r.processed + r.batch_size
           batch_ids == SubSeq(r.list, r.processed + 1, upto)
           batch == SelectSeq(batch_ids,
                       LAMBDA id : call.content[id] \notin {NotIndexed, NoText})
       IN  call' = [call EXCEPT !.run =
                IF r.processed >= Len(r.list) \/ batch = <<>>
                THEN [r EXCEPT !.pc = "idle", !.ended = "returned"]
                ELSE [r EXCEPT !.pc = "store", !.todo = batch,
                               !.fetched = Len(batch)]]
    /\ UNCHANGED logVars

\* embedding_service.encode raising: the loop is left.
EncodeFails ==
    /\ call.run.pc = "batch"
    /\ call.run.processed < Len(call.run.list)
    /\ call' = [call EXCEPT !.run.pc = "idle", !.run.ended = "encode_error"]
    /\ UNCHANGED logVars

\* One embedding_storage.store with its commit; after the last of a batch,
\* "processed += len(batch)".
BackfillStore ==
    /\ call.run.pc = "store"
    /\ LET r == call.run
           id == Head(r.todo)
       IN  call' = [call EXCEPT
                !.stored[id] = @ + 1,
                !.run = IF Tail(r.todo) = <<>>
                        THEN [r EXCEPT !.pc = "batch", !.todo = <<>>,
                                       !.processed = @ + r.fetched]
                        ELSE [r EXCEPT !.todo = Tail(r.todo)]]
    /\ UNCHANGED logVars

\* The run is killed between two commits.
Interrupt ==
    /\ call.run.pc \in {"batch", "store"}
    /\ call' = [call EXCEPT !.run.pc = "idle", !.run.todo = <<>>,
                            !.run.ended = "interrupted"]
    /\ UNCHANGED logVars

\* A sync pass indexes one more event, with or without content.
IndexEvent ==
    /\ \E id \in EventIds, c \in {NoText, Prompt} :
         /\ call.content[id] = NotIndexed
         /\ call' = [call EXCEPT !.content[id] = c]
    /\ UNCHANGED logVars

InitBackfill ==
    /\ InitLog({NoTranscript}, MaxTorn)
    /\ call = [op |-> "backfill_embeddings", runs |-> 0,
               content |-> [id \in EventIds |-> NotIndexed],
               stored |-> [id \in EventIds |-> 0], run |-> IdleRun]
NextBackfill ==
    \/ BackfillStart
    \/ BackfillBatch
    \/ EncodeFails
    \/ BackfillStore
    \/ Interrupt
    \/ IndexEvent
\* A run that is not killed goes on: its loop takes its next turn and its
\* next store.
SpecBackfill ==
    InitBackfill /\ [][NextBackfill]_vars
        /\ WF_vars(BackfillBatch) /\ WF_vars(BackfillStore)

\* Sync passes of one session, each over the lines appended since the last:
\* events of two types whose data holds one of two working directories or
\* none, with growing timestamps.
MaxPasses == 2
MaxBatch == 2
Cwds == {NoCwd, "/a", "/b"}
PassEvents == [type : {"SessionStart", "UserPromptSubmit"}, cwd : Cwds]
Batches == UNION {[1..m -> PassEvents] : m \in 1..MaxBatch}

Stamped(batch, n) ==
    [i \in 1..Len(batch) |->
        [id |-> n + i, ts |-> n + i, type |-> batch[i].type, cwd |-> batch[i].cwd]]

\* One sync_session call with nothing else running: the rows of the new
\* lines are inserted, then the session row is recomputed.
SyncPass ==
    /\ call.op = "rollup"
    /\ call.passes < MaxPasses
    /\ \E batch \in Batches :
         LET new == Stamped(batch, Len(call.rows))
             rows == call.rows \o new
         IN  \E session \in update_session_from_events(rows, new[1],
                                                         call.session) :
                 call' = [op |-> "rollup", passes |-> call.passes + 1,
                          rows |-> rows, first |-> new[1],
                          before |-> call.session, session |-> session]
    /\ UNCHANGED logVars

InitRollup ==
    /\ InitLog({NoTranscript}, MaxTorn)
    /\ call = [op |-> "rollup", passes |-> 0, rows |-> <<>>,
               first |-> [id |-> 0, ts |-> 0, type |-> "none", cwd |-> NoCwd],
               before |-> NoSession, session |-> NoSession]
NextRollup == SyncPass
SpecRollup == InitRollup /\ [][NextRollup]_vars

\* One hook process and one caller of sync_session, whose calls follow one
\* another while the process appends.
InitCount == InitWith({NoTranscript}, MaxTorn)
NextCount ==
    \/ Begin("p1", Envelope("UserPromptSubmit", "none", 0, Prompt, 0))
    \/ Lock("p1")
    \/ WriteStep("p1")
    \/ Unlock("p1")
    \/ Close("p1")
    \/ SyncStart("s1")
    \/ SyncStat("s1")
    \/ SyncReadCounted("s1")
    \/ SyncCursor("s1")
    \/ SyncRollupCounted("s1")
SpecCount == InitCount /\ [][NextCount]_vars

\* Sequential use of the repair tool: hook processes run one at a time
\* while the host has not yet written the assistant's text, then the tool.
RepairEnvelopes ==
    {Envelope("UserPromptSubmit", "none", 0, Prompt, 0),
     Envelope("Stop", "none", 0, NoText, 1)}
InitRepair ==
    InitWith([exists : {TRUE}, resp : {NoText}, imgs : {{}}], MaxTorn)
NextRepair ==
    \/ \E in \in RepairEnvelopes : AllIdle /\ repairs = 0 /\ Begin("p1", in)
    \/ Lock("p1")
    \/ WriteStep("p1")
    \/ Unlock("p1")
    \/ Close("p1")
    \/ ImgRead("p1")
    \/ AllIdle /\ HostWrites
    \/ \E dry \in BOOLEAN : AllIdle /\ RAnalyzeLogged(dry)
    \/ RRead
    \/ ROpen
    \/ WriteStep(Repairer)
    \/ Close(Repairer)
SpecRepair == InitRepair /\ [][NextRepair]_vars

\* Prompts appended one at a time and image correlation with mappings of
\* any content in between.
InitImages == InitWith({NoTranscript}, MaxTorn)
NextImages ==
    \/ /\ AllIdle
       /\ Begin("p1", Envelope("UserPromptSubmit", "none", 0, Prompt, 0))
    \/ Lock("p1")
    \/ WriteStep("p1")
    \/ Unlock("p1")
    \/ Close("p1")
    \/ \E m \in ImageMappings : UpdateSessionWithImages(m)
SpecImages == InitImages /\ [][NextImages]_vars

\* One hook process from its start to its exit, for every input and every
\* combination of failing steps.
InitMain == InitLog({NoTranscript}, MaxTorn) /\ call \in MainInputs
NextMain ==
    \/ MainLoad
    \/ MainProcess
    \/ MainImages
    \/ MainAppend
    \/ MainMarkdown
SpecMain == InitMain /\ [][NextMain]_vars

\* hybrid_search for every embedding object, limit and content of the two
\* indexes.
InitSearch ==
    /\ InitLog({NoTranscript}, MaxTorn)
    /\ call \in [op : {"query"}, embeddings : EmbeddingObjects,
                  use_semantic : BOOLEAN, limit : 1..MaxLimit,
                  kw_rows : KeywordLists, sem_rows : SemanticLists,
                  out : {[raised |-> "none", results |-> <<>>]}]
NextSearch == HybridSearch
SpecSearch == InitSearch /\ [][NextSearch]_vars

\* hybrid_search with every combination of filters.
InitFilter ==
    /\ InitLog({NoTranscript}, MaxTorn)
    /\ call \in [op : {"filtered_query"}, embeddings : EmbeddingObjects,
                  use_semantic : BOOLEAN, limit : 1..MaxLimit,
                  kw_rows : KeywordLists, sem_rows : SemanticLists,
                  event_types : TypeFilters, date_from : DateFilters,
                  date_to : DateFilters,
                  out : {[raised |-> "none", results |-> <<>>]}]
NextFilter == HybridSearchFiltered
SpecFilter == InitFilter /\ [][NextFilter]_vars

\* extract_images_from_prompt on every prompt of up to MaxBlocks blocks.
InitExtract ==
    /\ InitLog({NoTranscript}, MaxTorn)
    /\ call \in [op : {"prompt"}, prompt : Prompts, event_id : {1, 2},
                  out : {[files |-> {}, image_refs |-> <<>>]}]
NextExtract == ExtractImages
SpecExtract == InitExtract /\ [][NextExtract]_vars

\* EmbeddingStorage.search for every query vector and stored vectors of
\* two events.
InitEmbed ==
    /\ InitLog({NoTranscript}, MaxTorn)
    /\ call \in [op : {"vectors"}, has_vec : BOOLEAN, query : Vectors,
                  stored : [{"e1", "e2"} -> Vectors], limit : {MaxLimit},
                  out : {<<>>}]
NextEmbed == SearchEmbeddings
SpecEmbed == InitEmbed /\ [][NextEmbed]_vars

\* reciprocal_rank_fusion on every pair of result lists.
InitFusion ==
    /\ InitLog({NoTranscript}, MaxTorn)
    /\ call \in [op : {"lists"}, keyword_results : KeywordLists,
                  semantic_results : SemanticLists]
NextFusion == Fuse
SpecFusion == InitFusion /\ [][NextFusion]_vars

\* Raw scores (BM25 magnitudes, similarities in hundredths) a result may
\* carry.
RawScores == {1, 50}

\* The list l with the raw scores f: semantic_search sets score and
\* cosine_similarity to the same similarity, keyword_search leaves
\* cosine_similarity unset.
Rescore(l, f) ==
    [i \in 1..Len(l) |->
        SearchResult(l[i].event_id, f[i], l[i].source,
                     IF l[i].source = "semantic" THEN f[i] ELSE 0)]

\* Two calls of reciprocal_rank_fusion on lists of the same events in the
\* same order, the second with the raw scores drawn at the start.
FuseTwice ==
    /\ call.op = "two_lists"
    /\ LET kw2 == Rescore(call.keyword_results, call.kscores)
           sem2 == Rescore(call.semantic_results, call.sscores)
       IN  call' = [op |-> "fused_twice",
                    keyword_results |-> call.keyword_results,
                    semantic_results |-> call.semantic_results,
                    keyword_results2 |-> kw2, semantic_results2 |-> sem2,
                    results |-> reciprocal_rank_fusion(call.keyword_results,
                                                       call.semantic_results),
                    results2 |-> reciprocal_rank_fusion(kw2, sem2)]
    /\ UNCHANGED logVars

\* reciprocal_rank_fusion twice on every pair of result lists and every
\* second choice of raw scores.
InitRanks ==
    /\ InitLog({NoTranscript}, MaxTorn)
    /\ call \in [op : {"two_lists"}, keyword_results : KeywordLists,
                  semantic_results : SemanticLists,
                  kscores : [1..MaxKeyword -> RawScores],
                  sscores : [1..MaxSemantic -> RawScores]]
NextRanks == FuseTwice
SpecRanks == InitRanks /\ [][NextRanks]_vars

\* Concurrent hook processes of one session, some of whose events carry a
\* compact marker.
MarkerEnvelopes ==
    {Envelope("SessionStart", "compact", 0, NoText, 0),
     Envelope("UserPromptSubmit", "none", 0, Prompt, 0)}
InitMarkers == InitWith({NoTranscript}, MaxTorn)
NextMarkers ==
    \/ \E p \in Ingest, in \in MarkerEnvelopes : Begin(p, in)
    \/ \E p \in Ingest : Lock(p)
    \/ \E p \in Ingest : WriteStep(p)
    \/ \E p \in Ingest : Unlock(p)
    \/ \E p \in Ingest : Close(p)
SpecMarkers == InitMarkers /\ [][NextMarkers]_vars

MaxLog == 3

\* Logs of up to MaxLog events: prompts, responses, Stop events without a
\* transcript_path and with either path.
GapKinds == {"U", "A", "S0", "S1", "S2"}

GapEvent(kind, i) ==
    [id |-> i,
     type |-> IF kind = "U" THEN "UserPromptSubmit"
              ELSE IF kind = "A" THEN "AssistantResponse" ELSE "Stop",
     ts |-> i, sid |-> SessionId, asn |-> i \div 2, src |-> "none", nest |-> 0,
     tp |-> IF kind = "S1" THEN 1 ELSE IF kind = "S2" THEN 2 ELSE 0,
     content |-> IF kind = "U" THEN Prompt
                 ELSE IF kind = "A" THEN ShortResp ELSE NoText,
     images |-> 0]

GapLogs ==
    {SerAll([i \in DOMAIN ks |-> GapEvent(ks[i], i)]) :
        ks \in UNION {[1..m -> GapKinds] : m \in 0..MaxLog}}

\* A transcript file: missing, without assistant text, or with one of two
\* final assistant texts.
GapTranscripts ==
    {NoTranscript} \cup
    [exists : {TRUE}, resp : {NoText, ShortResp, LongResp}, imgs : {{}}]

RepairInputs ==
    [op : {"repair"}, f0 : GapLogs, ts : [TranscriptPaths -> GapTranscripts],
     dry_run : BOOLEAN]

\* The repair tool alone on every log of up to MaxLog events and every
\* state of the transcript files.
InitGaps == InitLog({NoTranscript}, MaxTorn) /\ call \in RepairInputs
NextGaps == RepairAlone
SpecGaps == InitGaps /\ [][NextGaps]_vars

\* One more run of the repair tool (not a dry run) on the log the runs
\* before it left, the transcript files staying as they are.
RepairRerun ==
    /\ call.op = "repairs"
    /\ call.n < MaxRepairs
    /\ call' = [call EXCEPT
                  !.n = @ + 1,
                  !.file = repair_session(@, call.ts, FALSE).file]
    /\ UNCHANGED logVars

InitRerun ==
    /\ InitLog({NoTranscript}, MaxTorn)
    /\ call \in [op : {"repairs"}, n : {0}, file : GapLogs,
                  ts : [TranscriptPaths -> GapTranscripts]]
NextRerun == RepairRerun
SpecRerun == InitRerun /\ [][NextRerun]_vars

\* Everything on one session: a hook process with image correlation, the
\* repair tool, the host writing the transcript, a sync caller.
FullEnvelopes ==
    {Envelope("UserPromptSubmit", "none", 0, Prompt, 0),
     Envelope("Stop", "none", 0, NoText, 1)}
Init ==
    InitWith([exists : {TRUE}, resp : {NoText}, imgs : SUBSET {0}], MaxTorn)
Next ==
    \/ \E in \in FullEnvelopes : Begin("p1", in)
    \/ IngestStep("p1")
    \/ WriteStep(Repairer)
    \/ Close(Repairer)
    \/ \E dry \in BOOLEAN : repairs < MaxRepairs - 2 /\ RAnalyze(dry)
    \/ RRead
    \/ ROpen
    \/ HostWrites
    \/ syncs < MaxSyncs - 2 /\ SyncStart("s1")
    \/ SyncStat("s1")
    \/ SyncRead("s1")
    \/ SyncCursor("s1")
    \/ SyncRollup("s1")
Spec == Init /\ [][Next]_vars


\* ===================================================================== claims
\* The events of the log as a reader decodes them.
LogEvents == read_session(file).evs

\* The event types handed to process_event so far, in order.
HistTypes == [i \in 1..Len(hist) |-> hist[i][1].type]

\* --------------------------------------------------------------------- C4
\* C4: with events ingested one at a time, each event of the log has the
\* agent_session_num of the event before it (0 before the first), plus one
\* exactly when its own source marker is compact or clear.
C4_AgentSessionNum ==
    AllIdle =>
        \A i \in 1..Len(LogEvents) :
            LogEvents[i].asn =
                (IF i = 1 THEN 0 ELSE LogEvents[i - 1].asn)
                + (IF LogEvents[i].src \in Markers THEN 1 ELSE 0)

\* The scenario of C4 (markers compact, clear, none give 1, 2, 2), which
\* the code does satisfy.
C4_Scenario ==
    (/\ AllIdle
     /\ Len(LogEvents) = 3
     /\ LogEvents[1].src = "compact"
     /\ LogEvents[2].src = "clear"
     /\ LogEvents[3].src \notin Markers)
    => <<LogEvents[1].asn, LogEvents[2].asn, LogEvents[3].asn>> = <<1, 2, 2>>

\* --------------------------------------------------------------------- C8
\* A Stop event that makes process_event derive an AssistantResponse.
HasResponse(e) ==
    e.type = "Stop" /\ e.tp # 0 /\ get_response(transcript) # NoText

DerivedFrom(stop, a) ==
    /\ a.type = "AssistantResponse"
    /\ a.ts = stop.ts
    /\ a.sid = stop.sid
    /\ a.asn = stop.asn
    /\ a.content = get_response(transcript)

\* C8: a Stop event with a transcript_path whose transcript yields a
\* response is appended as one batch of two lines, the Stop line directly
\* followed by the derived AssistantResponse (same timestamp, session and
\* agent_session_num, the response as content); any other Stop is one line;
\* so SessionStart, UserPromptSubmit, Stop give a log of 4 lines and the
\* first sync_session returns 4.
C8_StopBatch ==
    /\ \A i \in 1..Len(hist) :
         IF HasResponse(hist[i][1])
         THEN Len(hist[i]) = 2 /\ DerivedFrom(hist[i][1], hist[i][2])
         ELSE Len(hist[i]) = 1
    /\ AllIdle =>
         /\ read_session(file).ok
         /\ Len(Lines(file)) =
              Len(hist) + Cardinality({i \in 1..Len(hist) : HasResponse(hist[i][1])})
         /\ \A i \in 1..Len(LogEvents) :
              /\ HasResponse(LogEvents[i]) =>
                   i < Len(LogEvents) /\ DerivedFrom(LogEvents[i], LogEvents[i + 1])
              /\ LogEvents[i].type = "AssistantResponse" =>
                   i > 1 /\ HasResponse(LogEvents[i - 1])
         /\ (/\ HistTypes = <<"SessionStart", "UserPromptSubmit", "Stop">>
             /\ HasResponse(hist[3][1]))
            => /\ Len(Lines(file)) = 4
               /\ (syncs = 1 /\ sy["s1"].pc = "idle" /\ sy["s1"].h0 = 3)
                  => sy["s1"].ret = "4"

C8_Witness ==
    /\ AllIdle
    /\ HistTypes = <<"SessionStart", "UserPromptSubmit", "Stop">>
    /\ HasResponse(hist[3][1])
    /\ LogEvents[2].images # 0
    /\ Len(Lines(file)) = 4
    /\ syncs = 1
    /\ sy["s1"].ret = "4"
    /\ sy["s1"].ret = "4"

\* --------------------------------------------------------------------- C2
\* A sync_session call that has ended, was started when the call before it
\* had ended, with no writer call begun or at work from the end of that
\* call to now.
SecondOfTwo(s) ==
    /\ sy[s].pc = "idle"
    /\ sy[s].ret # "none"
    /\ sy[s].h0 >= 0
    /\ sy[s].prev = sy[s].h0
    /\ WriterCalls = sy[s].h0
    /\ AllIdle

\* C2: the second of two sync_session calls in succession, with no append
\* to and no rewrite of the log between them, returns 0 and leaves the
\* event rows, the full-text entries, the rollup and the cursor as they were.
C2_SecondSyncReturnsZero ==
    \A s \in Syncers :
        SecondOfTwo(s) =>
            /\ sy[s].ret = "0"
            /\ events = sy[s].snap.events
            /\ fts = sy[s].snap.fts
            /\ rollup = sy[s].snap.rollup
            /\ cursor = sy[s].snap.cursor

\* --------------------------------------------------------------------- C3
\* A sync_session call that has ended and was made while no writer was at
\* work, with no writer call begun since.
QuietSync(s) ==
    /\ sy[s].pc = "idle"
    /\ sy[s].ret # "none"
    /\ sy[s].h0 >= 0
    /\ WriterCalls = sy[s].h0
    /\ AllIdle

Indexed(e) ==
    /\ \E r \in events : r.id = e.id
    /\ \E i \in 1..Len(search(e.content)) : search(e.content)[i] = e.id

\* C3: after a sync_session call made while no writer is active, every
\* event of the log with non-empty content has an event row and a
\* full-text entry, so a search for its content returns it.
C3_QuietSyncIndexesContent ==
    \A s \in Syncers :
        QuietSync(s) =>
            \A i \in 1..Len(LogEvents) :
                LogEvents[i].content # NoText => Indexed(LogEvents[i])

\* --------------------------------------------------------------------- C1
\* The events of the log: the lines that hold one whole serialized event.
LogAll ==
    LET ls == SelectSeq(Lines(file), ValidLine)
    IN  [i \in 1..Len(ls) |-> Decode(ls[i])]

\* C1: the index never holds more event rows for the session than the log
\* holds events.  Stated for the states in which no writer call is in
\* progress, so that a log caught in the middle of a rewrite does not count.
C1_IndexNeverLeadsLog ==
    AllIdle => Cardinality(events) <= Len(LogAll)

\* --------------------------------------------------------------------- C7
\* e as it was appended: the images field aside, which a later Stop may add.
Appended(e) == [e EXCEPT !.images = 0]

RECURSIVE IsSubSeq(_, _)
IsSubSeq(a, b) ==
    IF a = <<>> THEN TRUE
    ELSE IF b = <<>> THEN FALSE
    ELSE IF Head(a) = Head(b) THEN IsSubSeq(Tail(a), Tail(b))
    ELSE IsSubSeq(a, Tail(b))

\* C7: every event whose append completed stays in the log, unchanged but
\* for an images field, and in the same order (one process appends here, so
\* the order of completion is the order of the log).  Stated for the states
\* in which no writer call is in progress.
C7_AppendOnly ==
    AllIdle =>
        IsSubSeq([i \in 1..Len(done) |-> Appended(done[i])],
                 [i \in 1..Len(LogAll) |-> Appended(LogAll[i])])

\* --------------------------------------------------------------------- C5
\* The line numbers of the log that hold event e.
LinesOf(e) ==
    {i \in 1..Len(Lines(file)) :
        ValidLine(Lines(file)[i]) /\ Decode(Lines(file)[i]).id = e.id}

\* C5: the two lines of a batch are next to each other in the log, in batch
\* order, with no line of another batch between them.
C5_BatchContiguous ==
    \A i \in 1..Len(hist) :
        Len(hist[i]) = 2 =>
            \A a \in LinesOf(hist[i][1]), b \in LinesOf(hist[i][2]) : b = a + 1

\* --------------------------------------------------------------------- C6
Returned(evs, e) == \E j \in 1..Len(evs) : evs[j].id = e.id

\* C6: what read_session returns holds both events of a Stop /
\* AssistantResponse batch or neither.
C6_BatchAllOrNothing ==
    rd.called =>
        \A i \in 1..Len(hist) :
            Len(hist[i]) = 2 =>
                (Returned(rd.evs, hist[i][1]) <=> Returned(rd.evs, hist[i][2]))

\* --------------------------------------------------------------------- C9
\* f ends in a fragment with no newline.
TornTail(f) == f # <<>> /\ ~IsNewline(f[Len(f)])

\* The events of the newline-terminated lines of f.
CompleteEvents(f) ==
    LET ls == SelectSeq(Lines(f), LAMBDA l : IsNewline(l[Len(l)]))
    IN  [i \in 1..Len(ls) |-> Decode(ls[i])]

ReadTolerates ==
    (rd' # rd /\ TornTail(file)) =>
        rd'.ok /\ rd'.evs = CompleteEvents(file)

SyncTolerates(s) ==
    LET data == SubSeq(file, sy[s].last_pos + 1, Len(file))
    IN  (sy[s].pc = "read" /\ sy'[s].pc # "read" /\ TornTail(file)) =>
            /\ sy'[s].ret # "error"
            /\ sy'[s].n = Len(CompleteEvents(data))

\* C9: on a log that ends in a fragment without a newline, read_session
\* and sync_session do not fail and yield the events of the complete lines.
C9_TornTailTolerated ==
    [][ReadTolerates /\ \A s \in Syncers : SyncTolerates(s)]_vars

\* --------------------------------------------------------------------- C10
\* C10: no step makes the stored cursor smaller.
C10_CursorMonotonic == [][cursor' >= cursor]_vars

\* --------------------------------------------------------------------- C11
\* C11: a sync_session call that started after the append of an event had
\* completed leaves that event in the index when it ends, so an event that
\* a running call missed is picked up by the next call.
C11_NextSyncCatchesUp ==
    \A s \in Syncers :
        (sy[s].pc = "idle" /\ sy[s].ret # "none") =>
            \A i \in 1..sy[s].d0 : \E r \in events : r.id = done[i].id

\* -------------------------------------------------------------------- C12
RepairCalled == call.op = "repair_session"

\* A non-dry-run call of repair_session that returned, made right after a
\* non-dry-run call that returned, with the same transcript response and
\* no process_event call since the earlier one began.
SecondRepair ==
    /\ RepairCalled
    /\ wr[Repairer].pc = "idle"
    /\ rs.ran /\ ~rs.dry_run
    /\ call.prev.n > 0 /\ call.prev.ran /\ ~call.prev.dry_run
    /\ call.prev.t0 = call.t0
    /\ call.prev.h0 = call.h0
    /\ Len(hist) = call.h0

\* C12: the second of two non-dry-run calls of repair_session in succession,
\* with the transcript unchanged and nothing appended in between, reports
\* repaired = 0 and leaves the log as it found it.
C12_SecondRepairIsNoop ==
    SecondRepair => (rs.result.repaired = 0 /\ file = call.f0)

\* -------------------------------------------------------------------- C13
\* A dry-run call of repair_session has returned and no process_event call
\* has begun since it began.
DryRunDone ==
    /\ RepairCalled
    /\ wr[Repairer].pc = "idle"
    /\ rs.dry_run
    /\ Len(hist) = call.h0

\* A non-dry-run call was made on the log and the transcript that the
\* dry-run call before it saw, and is past its loop.
AfterDryRun ==
    /\ RepairCalled
    /\ ~rs.dry_run
    /\ wr[Repairer].pc # "rread"
    /\ call.prev.n > 0 /\ call.prev.dry_run
    /\ call.prev.f0 = call.f0
    /\ call.prev.t0 = call.t0

\* C13: a dry-run call of repair_session leaves the log as it found it, and
\* a non-dry-run call on the same log and transcript returns, or fails to
\* return, with the counts the dry run gave.
C13_DryRunFrame ==
    /\ DryRunDone => file = call.f0
    /\ (RepairCalled /\ rs.dry_run) => wr[Repairer].pc \in {"idle", "rread"}
    /\ AfterDryRun =>
          (rs.ran = call.prev.ran /\ rs.result = call.prev.result)

\* A dry run that counted a repair was followed by a non-dry run with the
\* same counts, which rewrote the log.
C13_Witness ==
    /\ AfterDryRun
    /\ wr[Repairer].pc = "idle"
    /\ rs.ran
    /\ call.prev.result.repaired > 0
    /\ rs.result = call.prev.result
    /\ file # call.f0

\* -------------------------------------------------------------------- C14
UpdateCalled == call.op = "update_session_with_images"

\* C14: update_session_with_images leaves every event that has an images
\* field as it is, whatever the mapping, and a call with the mapping of the
\* call before it, on the log that call left, updates nothing and does not
\* rewrite the log.
C14_ImagesSetOnce ==
    UpdateCalled =>
        /\ Len(call.after) = Len(call.before)
        /\ \A i \in 1..Len(call.before) :
               call.before[i].images # 0 => call.after[i] = call.before[i]
        /\ call.again => (~call.updated /\ call.after = call.before)

\* A call repeated with a mapping that had set a field, and a call with
\* another list for an event that has the field.
C14_Witness ==
    /\ UpdateCalled
    /\ call.again
    /\ \E i \in 1..Len(call.before) :
          /\ call.before[i].images # 0
          /\ (i - 1) \in DOMAIN call.mapping
    /\ LogEvents = call.after

C14_WitnessOther ==
    /\ UpdateCalled
    /\ \E i \in 1..Len(call.before) :
          /\ call.before[i].images # 0
          /\ PromptOrdinal(call.before, i) \in DOMAIN call.mapping
          /\ call.mapping[PromptOrdinal(call.before, i)] # call.before[i].images

\* -------------------------------------------------------------------- C15
Fused == call.op = "reciprocal_rank_fusion"

\* The 0-based ranks at which event id stands in list l.
RanksOf(l, id) == {i - 1 : i \in {j \in 1..Len(l) : l[j].event_id = id}}

\* The fused score of event id in the results.
ScoreOf(id) ==
    LET i == CHOOSE j \in 1..Len(call.results) : call.results[j].event_id = id
    IN  call.results[i].score

\* C15: an event at keyword rank rk and semantic rank rs has the fused
\* score 1/(60+rk+1) + 1/(60+rs+1), and an event of one list only has that
\* list's single term.
C15_FusedScoreExact ==
    Fused =>
        \A id \in EventIds :
            LET K == RanksOf(call.keyword_results, id)
                S == RanksOf(call.semantic_results, id)
            IN  /\ \A rk \in K : \A rsem \in S :
                       ScoreOf(id) = RRFTerm(rk) + RRFTerm(rsem)
                /\ \A rk \in K : S = {} => ScoreOf(id) = RRFTerm(rk)
                /\ \A rsem \in S : K = {} => ScoreOf(id) = RRFTerm(rsem)

\* -------------------------------------------------------------------- C16
\* The position at which event id is first met, the keyword list before
\* the semantic list.
FirstSeen(id) ==
    LET l == call.keyword_results \o call.semantic_results
    IN  CHOOSE i \in 1..Len(l) :
            /\ l[i].event_id = id
            /\ \A j \in 1..(i - 1) : l[j].event_id # id

\* C16: the fused list is in non-increasing order of fused score, and events
\* of equal fused score stand in the order in which they were first met.
C16_SortedStable ==
    Fused =>
        \A i, j \in 1..Len(call.results) :
            i < j =>
                /\ call.results[i].score >= call.results[j].score
                /\ call.results[i].score = call.results[j].score =>
                       FirstSeen(call.results[i].event_id)
                           < FirstSeen(call.results[j].event_id)

\* Two events of equal fused score, met at swapped ranks in the two lists,
\* stand below an event of greater score.
C16_Witness ==
    /\ Fused
    /\ Len(call.results) = 3
    /\ call.results[1].score > call.results[2].score
    /\ call.results[2].score = call.results[3].score
    /\ Len(call.semantic_results) = 2
    /\ call.semantic_results[1].event_id = call.results[3].event_id

\* -------------------------------------------------------------------- C17
MainExited == call.op = "main" /\ call.status # "running"

\* The steps that raised, and the labels of the lines of errors.log.
RaisedSteps == {call.raised[i] : i \in 1..Len(call.raised)}
Recorded(step, label) ==
    \E i \in 1..Len(call.errors) :
        call.errors[i].step = step /\ call.errors[i].label = label

\* The hook process ends with status 0, no exception out of main and
\* nothing written to stdout or stderr.
Silent ==
    /\ call.status = "0"
    /\ ~call.escaped
    /\ call.stdout = <<>>

Searched == call.op = "hybrid_search"

\* What the search gives with semantic search switched off.
KeywordOnly ==
    hybrid_search(call.embeddings, call.kw_rows, call.sem_rows, call.limit,
                  FALSE)

\* C18: with use_semantic set and an embedding object whose encode returns
\* an empty list, or none, hybrid_search raises nothing and returns the
\* results of the keyword-only search.
C18_NoEncoderDegrades ==
    (Searched /\ call.use_semantic /\ encode(call.embeddings) = <<>>) =>
        /\ call.out.raised = "none"
        /\ call.out = KeywordOnly

\* -------------------------------------------------------------------- C19
Extracted == call.op = "extract_images_from_prompt"

\* The references made for the base64 blocks of content data.
RefsOf(data) ==
    {i \in 1..Len(call.out.image_refs) :
        /\ call.prompt[call.out.image_refs[i].index + 1].type = "base64"
        /\ call.prompt[call.out.image_refs[i].index + 1].data = data}

\* C19: two image blocks of identical bytes in the prompt of one event
\* leave one file in the image directory, and the images list has two
\* entries that both reference it.
C19_IdenticalBytesOneFile ==
    Extracted =>
        \A data \in {"bytesA", "bytesB"} :
            Cardinality(RefsOf(data)) = 2 =>
                /\ Cardinality({f \in call.out.files :
                                   f.hash = ContentHash(data)}) = 1
                /\ \A i, j \in RefsOf(data) :
                       call.out.image_refs[i].path = call.out.image_refs[j].path

\* -------------------------------------------------------------------- C20
EmbeddingsSearched == call.op = "EmbeddingStorage.search"

\* 0 <= score <= 1 for a score of either backend.
InUnit(score) ==
    IF call.has_vec THEN score.d2 <= 1
    ELSE score.num >= 0 /\ score.num * score.num <= score.den2

\* C20: every score EmbeddingStorage.search returns lies in [0, 1], with the
\* vec0 index and with the linear scan.
C20_ScoreInUnitInterval ==
    EmbeddingsSearched =>
        \A i \in 1..Len(call.out) : InUnit(call.out[i].score)

\* The linear scan alone breaks the bound.
C20_FallbackInUnit ==
    (EmbeddingsSearched /\ ~call.has_vec) =>
        \A i \in 1..Len(call.out) : InUnit(call.out[i].score)

\* -------------------------------------------------------------------- C21
\* The process whose step this is: its locals change or a write(2) of its
\* own begins.
Stepping(p) == wr'[p] # wr[p] \/ sys'.who = p

\* C21: every step that changes the content of the session log is taken by
\* a process that holds the session's exclusive lock.
C21_WritesUnderLock ==
    [][file' # file => \E p \in Writers : Stepping(p) /\ lock = p]_vars

\* -------------------------------------------------------------------- C22
\* The number of compact and clear events among the first i of the log.
MarkersUpTo(i) ==
    Cardinality({j \in 1..i : LogEvents[j].src \in Markers})

\* C22: with process_event calls running concurrently, once they have all
\* returned the agent_session_num values are non-decreasing along the log
\* and each equals the number of compact and clear events at or before it.
C22_ConcurrentSessionNum ==
    AllIdle =>
        \A i \in 1..Len(LogEvents) :
            /\ LogEvents[i].asn = MarkersUpTo(i)
            /\ i > 1 => LogEvents[i - 1].asn <= LogEvents[i].asn

\* -------------------------------------------------------------------- C23
\* The rows of the events whose lines lie before position pos of the log.
RowsBefore(pos) ==
    LET evs == LoadLines(Lines(SubSeq(file, 1, pos))).evs
    IN  {Row(evs[i]) : i \in 1..Len(evs)}

\* C23: the rows a sync_session call puts into the index are rows of events
\* whose bytes lie before the end of file it captured at its start.
C23_SyncReadsUpToCapture ==
    [][\A s \in Syncers :
          (sy[s].pc = "read" /\ sy'[s].pc # "read") =>
              events' \subseteq events \cup RowsBefore(sy[s].current_pos)]_vars

\* -------------------------------------------------------------------- C24
\* C24: once a sync_session call has returned a count, the sum of the counts
\* returned so far equals the number of events of the log that the last read
\* loop had come past: no event is counted twice and none is skipped.
C24_EachEventCountedOnce ==
    (/\ call.op = "sync_session"
     /\ sy["s1"].pc = "idle"
     /\ sy["s1"].ret \notin {"none", "error"})
        => call.total = call.read

\* -------------------------------------------------------------------- C25
\* Offset 0 of the log f, or an offset directly after one of its newlines.
OnLineBoundary(f, pos) == pos = 0 \/ (pos <= Len(f) /\ IsNewline(f[pos]))

\* C25: while no sync_session call is in progress the stored cursor is at
\* most the length of the log and lies on a line boundary of its contents.
C25_CursorOnLineBoundary ==
    (\A s \in Syncers : sy[s].pc = "idle")
        => cursor <= Len(file) /\ OnLineBoundary(file, cursor)

\* -------------------------------------------------------------------- C26
\* A call of repair_session on a log of its own has returned.
Repaired == call.op = "repaired"

\* The positions of the gaps of the log the call was given.
GapsOf(f) ==
    LET evs == read_session(f).evs IN {i \in 1..Len(evs) : IsGap(evs, i)}

\* In the events evs the Stop event stop is directly followed by an
\* AssistantResponse with its timestamp, session and number and the final
\* assistant text of its transcript.
Answered(evs, stop, text) ==
    \E j \in 1..(Len(evs) - 1) :
        /\ evs[j] = stop
        /\ evs[j + 1].type = "AssistantResponse"
        /\ evs[j + 1].ts = stop.ts
        /\ evs[j + 1].sid = stop.sid
        /\ evs[j + 1].asn = stop.asn
        /\ evs[j + 1].content = text

\* C26: after a non-dry-run repair_session, as many gaps as it counted
\* repaired have, in the log it left, an AssistantResponse directly after
\* their Stop line with the Stop's timestamp, session_id and
\* agent_session_num and the transcript's final assistant text.
C26_RepairedAfterStop ==
    (Repaired /\ ~call.dry_run) =>
        LET before == read_session(call.f0).evs
            after == read_session(call.file).evs
        IN  \E S \in SUBSET GapsOf(call.f0) :
                /\ Cardinality(S) = call.result.repaired
                /\ \A i \in S :
                      /\ get_response(call.ts[before[i].tp]) # NoText
                      /\ Answered(after, before[i],
                                  get_response(call.ts[before[i].tp]))

\* Two gaps were repaired in one run.
C26_Witness ==
    Repaired /\ ~call.dry_run /\ call.result.repaired = 2

\* -------------------------------------------------------------------- C27
\* The gaps of the log whose transcript is missing or holds no assistant
\* text.
Unanswerable(f, ts) ==
    LET evs == read_session(f).evs
    IN  {i \in GapsOf(f) : get_response(ts[evs[i].tp]) = NoText}

\* The Stop event stop of evs has no AssistantResponse directly after it.
Unrepaired(evs, stop) ==
    \A j \in 1..Len(evs) :
        evs[j] = stop =>
            ~(j + 1 <= Len(evs) /\ evs[j + 1].type = "AssistantResponse")

\* C27: repair_session counts every gap of the log, counts as failed each
\* gap whose transcript is missing or yields no text and leaves it without a
\* response, and returns counts with missing = repaired + failed + skipped.
C27_FailedGapsCounted ==
    Repaired =>
        LET before == read_session(call.f0).evs
            after == read_session(call.file).evs
            res == call.result
        IN  /\ res.missing = Cardinality(GapsOf(call.f0))
            /\ res.failed = Cardinality(Unanswerable(call.f0, call.ts))
            /\ res.missing = res.repaired + res.failed + res.skipped
            /\ \A i \in Unanswerable(call.f0, call.ts) :
                  Unrepaired(after, before[i])

\* A run met a gap without a transcript text and then repaired a gap
\* before it in the log.
C27_Witness ==
    /\ Repaired /\ ~call.dry_run
    /\ call.result.failed > 0 /\ call.result.repaired > 0
    /\ \E i \in Unanswerable(call.f0, call.ts) :
          \E j \in GapsOf(call.f0) \ Unanswerable(call.f0, call.ts) : j < i

\* -------------------------------------------------------------------- C28
\* Semantic search was switched off, had no embedding object, or found
\* nothing, and the keyword list names each event once.
KeywordPath ==
    /\ Searched /\ call.out.raised = "none"
    /\ ~call.use_semantic \/ call.embeddings = "None" \/ call.sem_rows = <<>>
    /\ Injective([i \in 1..Len(call.kw_rows) |-> call.kw_rows[i].event_id])

\* C28: without semantic results hybrid_search returns the event at
\* 0-based keyword rank rk with score exactly 1 / (60 + rk + 1).
C28_KeywordPathFused ==
    KeywordPath =>
        \A i \in 1..Len(call.out.results) :
            call.out.results[i].score * RRFScale = RRFTerm(i - 1)

\* -------------------------------------------------------------------- C29
FusedTwice == call.op = "fused_twice"

\* The similarity of event id in the semantic list sem, 0 when absent.
SimilarityIn(sem, id) ==
    IF \E i \in 1..Len(sem) : sem[i].event_id = id
    THEN sem[CHOOSE i \in 1..Len(sem) : sem[i].event_id = id].cosine_similarity
    ELSE 0

\* Each result of out carries the similarity its event has in sem.
CosineKept(out, sem) ==
    \A i \in 1..Len(out) :
        out[i].cosine_similarity = SimilarityIn(sem, out[i].event_id)

\* C29: two calls of reciprocal_rank_fusion on lists of the same event ids
\* in the same order return the same events in the same order with the same
\* fused scores whatever the raw scores and similarities, and each result's
\* cosine_similarity is its event's similarity in the semantic list, or 0.
C29_RanksOnly ==
    FusedTwice =>
        /\ Len(call.results) = Len(call.results2)
        /\ \A i \in 1..Len(call.results) :
              /\ call.results[i].event_id = call.results2[i].event_id
              /\ call.results[i].score = call.results2[i].score
        /\ CosineKept(call.results, call.semantic_results)
        /\ CosineKept(call.results2, call.semantic_results2)

\* Two calls whose raw scores differ at every rank in both lists returned
\* several events, one of them from both lists.
C29_Witness ==
    /\ FusedTwice
    /\ Len(call.results) >= 2
    /\ call.semantic_results # <<>> /\ call.keyword_results # <<>>
    /\ \A i \in 1..Len(call.keyword_results) :
          call.keyword_results[i].score # call.keyword_results2[i].score
    /\ \A i \in 1..Len(call.semantic_results) :
          call.semantic_results[i].cosine_similarity
              # call.semantic_results2[i].cosine_similarity
    /\ \E i \in 1..Len(call.keyword_results) :
          \E j \in 1..Len(call.semantic_results) :
              call.keyword_results[i].event_id
                  = call.semantic_results[j].event_id

\* -------------------------------------------------------------------- C30
\* C30: every result of hybrid_search has a type among event_types when
\* that filter is given and a timestamp within date_from and date_to when
\* those are given.
C30_ResultsPassFilters ==
    (call.op = "hybrid_search_filtered" /\ call.out.raised = "none") =>
        \A i \in 1..Len(call.out.results) :
            Where(call.out.results[i].event_id, call.event_types,
                  call.date_from, call.date_to)

\* -------------------------------------------------------------------- C31
\* C31: the session lock is held only by a process inside the try block of
\* its write or about to run the finally clause that releases it, and every
\* process_event invocation that has started, one waiting for the lock
\* included, returns.
C31_LockReleasedAndLive ==
    /\ [](\A p \in Ingest : lock = p => wr[p].pc \in {"write", "unlock"})
    /\ [](AllIdle => lock = NoOne)
    /\ \A p \in Ingest : (wr[p].pc # "idle") ~> (wr[p].pc = "idle")

\* A process waits for the lock for its image rewrite while another holds
\* the lock.
C31_Witness ==
    \E p, q \in Ingest :
        /\ p # q
        /\ wr[p].pc = "lock" /\ wr[p].phase = "images"
        /\ lock = q

\* -------------------------------------------------------------------- C32
\* The log of session s parses from its stored cursor on.
Parses(s) == ~sync_session(call.logs[s], call.cursors[s]).raised

\* C32: after sync_all, every session whose new lines parse is synced to
\* the end of its log, whatever the other sessions hold, and a session with
\* a line that does not parse keeps its cursor.
C32_OtherSessionsSynced ==
    call.op = "sync_all" =>
        \A s \in SessionIds :
            IF Parses(s)
            THEN /\ call.out.cursors[s] >= Len(call.logs[s])
                 /\ \A i \in 1..Len(read_session(call.logs[s]).evs) :
                       i * BaseLen > call.cursors[s] =>
                           read_session(call.logs[s]).evs[i] \in call.out.index
            ELSE call.out.cursors[s] = call.cursors[s]

\* -------------------------------------------------------------------- C33
\* The SessionStart events among the indexed rows, by position.
Starts == {i \in 1..Len(call.rows) : call.rows[i].type = "SessionStart"}

\* C33: after a completed sync_session the session row has the number of
\* the session's event rows, their least and greatest timestamps, and the
\* working directory of the session's first SessionStart event.
C33_RollupIsFold ==
    (call.op = "rollup" /\ call.passes > 0) =>
        /\ call.session.event_count = Len(call.rows)
        /\ call.session.started_at = call.rows[1].ts
        /\ call.session.ended_at = call.rows[Len(call.rows)].ts
        /\ Starts # {} => call.session.cwd = call.rows[SetMin(Starts)].cwd

\* -------------------------------------------------------------------- C34
\* C34: the index holds one event row for each event id and the full-text
\* index at most one entry for it, however often insert_event was called
\* for the id.
C34_OneEntryPerId ==
    /\ \A r1, r2 \in events : r1.id = r2.id => r1 = r2
    /\ \A i, j \in 1..Len(fts) : fts[i].event_id = fts[j].event_id => i = j

\* -------------------------------------------------------------------- C35
\* The events for which a record was stored since the run began.
StoredByRun == {id \in EventIds : call.stored[id] > call.run.stored0[id]}

C36_MarkdownFromLogAlone ==
    call.op = "generate_markdown" => call.doc1 = call.doc2

\* -------------------------------------------------------------------- C37
\* C37: the ids of the events of a session log are pairwise distinct, the
\* evt_repair ids of repeated repair runs included.
C37_IdsDistinct ==
    call.op = "repairs" =>
        LET evs == read_session(call.file).evs
        IN  \A i, j \in DOMAIN evs : evs[i].id = evs[j].id => i = j

\* -------------------------------------------------------------------- C38
\* The line before line i of the log is a whole Stop line of the same
\* session, timestamp and agent_session_num as the event of line i.
AfterItsStop(ls, i) ==
    /\ i > 1
    /\ ValidLine(ls[i - 1])
    /\ Decode(ls[i - 1]).type = "Stop"
    /\ Decode(ls[i - 1]).sid = Decode(ls[i]).sid
    /\ Decode(ls[i - 1]).ts = Decode(ls[i]).ts
    /\ Decode(ls[i - 1]).asn = Decode(ls[i]).asn

\* C38: every AssistantResponse line of the log is immediately preceded by
\* a Stop line of the same session, timestamp and agent_session_num.
C38_ResponseFollowsStop ==
    LET ls == Lines(file)
    IN  \A i \in DOMAIN ls :
            ValidLine(ls[i]) /\ Decode(ls[i]).type = "AssistantResponse"
                => AfterItsStop(ls, i)

\* -------------------------------------------------------------------- C39
\* C39: hybrid_search returns at most limit results and no event id more
\* than once, on the fused path and on the keyword-only path.
C39_AtMostLimitNoDuplicates ==
    call.op = "hybrid_search" /\ call.out.raised = "none" =>
        /\ Len(call.out.results) <= call.limit
        /\ Injective([i \in 1..Len(call.out.results) |->
                         call.out.results[i].event_id])
====
